---- MODULE Spec2Model ----
(***************************************************************************)
(* ORC file scan of the HDFS scanner: the stream (ORCHdfsFileStream), the   *)
(* row-reader filter (OrcRowReaderFilter) and the scan loop                *)
(* (HdfsOrcScanner) of be/src/exec/vectorized/hdfs_scanner_orc.cpp, and    *)
(* the column builders of be/src/column/column_builder.h.                  *)
(*                                                                         *)
(* The specifications share the variables:                                 *)
(*   SpecRange          the constructor's range map, filterOnOpeningStripe *)
(*   SpecMinMax         filterOnPickRowGroup / filterMinMax                *)
(*   Spec               do_open and do_get_next with the decoder's hooks   *)
(*   SpecDict           filterOnPickStringDictionary, stripe after stripe  *)
(*   SpecColumnBuilder  ColumnBuilder: append, append_null, build          *)
(*   SpecBinaryBuilder  NullableBinaryColumnBuilder                        *)
(*   SpecStream         ORCHdfsFileStream: prepareCache and read           *)
(*   SpecCharDict       the dictionary chunk of a CHAR or VARCHAR slot     *)
(***************************************************************************)
EXTENDS Integers, Sequences, FiniteSets, TLC

\* ---------------------------------------------------------------- bounds
\* scan ranges of SpecRange: offsets 0..MaxOffset, lengths 0..MaxLength
MaxOffset == 3
MaxLength == 2
MaxRanges == 2
\* column values 0..MaxVal
MaxVal == 1
\* slots of the min/max tuple descriptor and number of min/max conjuncts
MaxMinMaxSlots == 1
MaxMinMaxPreds == 2

\* the decoder's events of one file (stripes opened plus row groups picked)
MaxFileParts == 4
\* rows of one decoded row group
MaxRows == 2
\* runtime_state->chunk_size()
ChunkSize == 3
\* entries of a string dictionary of the char stage, and characters of an entry
MaxDictSize == 2
MaxEntryLength == 2

Vals == 0..MaxVal
\* the null datum (column values are 0..MaxVal)
NULLV == -1

Min(S) == CHOOSE x \in S : \A y \in S : x <= y
Max(S) == CHOOSE x \in S : \A y \in S : x >= y
SeqsUpTo(S, n) == UNION {[1..k -> S] : k \in 0..n}
Range(f) == {f[x] : x \in DOMAIN f}

VARIABLES
    \* ---- OrcRowReaderFilter
    params_scan_ranges,     \* _scanner_params.scan_ranges, in the caller's order
    scan_ranges,            \* _scan_ranges: range end -> range start
    current_stripe_index,   \* _current_stripe_index
    stripe_skip,            \* last return value of filterOnOpeningStripe
    stripe_offset,          \* stripeInformation->offset() of that call
    min_max_tuple_desc,     \* _scanner_params.min_max_tuple_desc with the row group's statistics
    min_max_conjunct_ctxs,  \* _scanner_ctx.min_max_conjunct_ctxs
    row_group_skip,         \* last return value of filterOnPickRowGroup
    init_use_dict_filter_slots, \* _init_use_dict_filter_slots
    use_dict_filter_slots,  \* _use_dict_filter_slots
    dict_filter_eval_cache, \* _dict_filter_eval_cache: slot -> filter over the dictionary rows
    \* ---- HdfsOrcScanner
    params,                 \* what the scan was created with (conjuncts, config, caller's slot order)
    should_skip_file,       \* _should_skip_file
    orc_reader,             \* _orc_reader != nullptr
    lazy_load_ctx,          \* _lazy_load_ctx and whether the reader was given it
    src_slot_descriptors,   \* _src_slot_descriptors
    dict_filter,            \* _dict_filter
    chunk_filter,           \* _chunk_filter
    ck,                     \* do_get_next's local chunk ck
    \* ---- the decoder (OrcChunkReader and the ORC row reader behind it)
    file_left,              \* stripes and row groups the file still holds, at most
    sdicts,                 \* the open stripe's string dictionaries: column -> values
    in_stripe,              \* a stripe is open
    batch,                  \* the rows of the position read_next decoded last
    \* ---- the caller
    chunk,                  \* the caller's output chunk *chunk
    chunk_before,           \* *chunk as it was when the running or last call began
    open_status,            \* what do_open returned
    status,                 \* what do_get_next returned last
    turns,                  \* times the running or last call has called read_next
    \* ---- what the last read step did
    survivors,              \* indices into batch of the rows the step kept
    lazy_read,              \* lazy_seek_to / lazy_read_next ran for the position in batch
    mask_use,               \* the masks the step applied, and whether it had rebuilt them
    \* ---- the dictionary stage on its own
    dict_skip,              \* last return value of filterOnPickStringDictionary
    \* ---- ColumnBuilder / NullableBinaryColumnBuilder
    column,                 \* _column of ColumnBuilder: the values appended
    null_column,            \* _null_column: one byte per row, 1 = null
    has_null,               \* _has_null
    bytes,                  \* _column->get_bytes() of the binary builder
    offsets,                \* _column->get_offset() of the binary builder
    appended,               \* per append call so far: did it append a null
    built,                  \* what build returned, with its argument
    protocol,               \* the binary builder's calls since its last resize
    \* ---- ORCHdfsFileStream
    cache_buffer,           \* _cache_buffer
    cache_offset,           \* _cache_offset
    io_count,               \* _stats->io_count
    bytes_read,             \* _stats->bytes_read
    last_read,              \* the last read call: its arguments and how it ended
    last_prepare,           \* the last prepareCache call: its arguments, the stream before it
    pc                      \* position of the component under study

vars == <<params_scan_ranges, scan_ranges, current_stripe_index, stripe_skip, stripe_offset,
          min_max_tuple_desc, min_max_conjunct_ctxs, row_group_skip,
          init_use_dict_filter_slots, use_dict_filter_slots, dict_filter_eval_cache,
          params, should_skip_file, orc_reader, lazy_load_ctx, src_slot_descriptors,
          dict_filter, chunk_filter, ck, file_left, sdicts, in_stripe, batch,
          chunk, chunk_before, open_status, status, turns, survivors, lazy_read, mask_use,
          dict_skip, column, null_column, has_null, bytes, offsets, appended, built, protocol,
          cache_buffer, cache_offset, io_count, bytes_read, last_read, last_prepare, pc>>

dictVars == <<init_use_dict_filter_slots, use_dict_filter_slots, dict_filter_eval_cache>>
scannerVars == <<params, should_skip_file, orc_reader, lazy_load_ctx, src_slot_descriptors,
                 dict_filter, chunk_filter, ck>>
decoderVars == <<file_left, sdicts, in_stripe, batch>>
callerVars == <<chunk, chunk_before, open_status, status, turns, survivors, lazy_read, mask_use>>
scanVars == <<dictVars, scannerVars, decoderVars, callerVars>>
builderVars == <<column, null_column, has_null, bytes, offsets, appended, built, protocol>>
streamVars == <<cache_buffer, cache_offset, io_count, bytes_read, last_read, last_prepare>>
restVars == <<dict_skip, builderVars, streamVars>>

rangeVars == <<params_scan_ranges, scan_ranges, current_stripe_index, stripe_skip, stripe_offset>>
minMaxVars == <<min_max_tuple_desc, min_max_conjunct_ctxs, row_group_skip>>

\* ================================================================ stage 1
\* std::map<uint64_t, uint64_t>: a function from its keys
EmptyMap == [k \in {} |-> 0]
\* a hook's last return value: <<>> before the first call, then <<b>>
NoRet == <<>>
Ret(b) == <<b>>
\* a null TupleDescriptor*
NoDesc == [present |-> FALSE, slots |-> <<>>]
\* std::map::end()
MapEnd == -1

\* std::map::insert(make_pair(k, v)): an existing key keeps its value
MapInsert(m, k, v) ==
    IF k \in DOMAIN m THEN m
    ELSE [x \in (DOMAIN m) \cup {k} |-> IF x = k THEN v ELSE m[x]]

\* the constructor's loop over _scanner_params.scan_ranges
RECURSIVE InsertScanRanges(_, _)
InsertScanRanges(m, rs) ==
    IF rs = <<>> THEN m
    ELSE InsertScanRanges(MapInsert(m, Head(rs).offset + Head(rs).length, Head(rs).offset),
                          Tail(rs))

\* std::map::upper_bound: the first key greater than offset
upper_bound(m, offset) ==
    LET ks == {k \in DOMAIN m : k > offset}
    IN IF ks = {} THEN MapEnd ELSE Min(ks)

\* a slip the range lookup could have: lower_bound, the first key not less than offset
filterOnOpeningStripe_lower_bound(m, offset) ==
    LET ks == {k \in DOMAIN m : k >= offset}
        it == IF ks = {} THEN MapEnd ELSE Min(ks)
    IN IF it # MapEnd /\ offset >= m[it] /\ offset < it THEN FALSE ELSE TRUE

\* OrcRowReaderFilter::filterOnOpeningStripe: TRUE = skip the stripe
filterOnOpeningStripe(m, offset) ==
    LET it == upper_bound(m, offset)
    IN IF it # MapEnd /\ offset >= m[it] /\ offset < it THEN FALSE ELSE TRUE

\* ---- inputs of SpecRange
ScanRange == [offset : 0..MaxOffset, length : 0..MaxLength]
InRange(r, x) == r.offset <= x /\ x < r.offset + r.length
\* two half-open ranges share no byte
Disjoint(r1, r2) == ~ \E x \in 0..(MaxOffset + MaxLength) : InRange(r1, x) /\ InRange(r2, x)
NonOverlapping(rs) == \A i, j \in DOMAIN rs : i # j => Disjoint(rs[i], rs[j])
ScanRangeLists == {rs \in SeqsUpTo(ScanRange, MaxRanges) : NonOverlapping(rs)}

InitFilterIdle ==
    /\ params_scan_ranges = <<>>
    /\ scan_ranges = EmptyMap
    /\ current_stripe_index = 0
    /\ stripe_skip = NoRet
    /\ stripe_offset = 0

InitMinMaxIdle ==
    /\ min_max_tuple_desc = NoDesc
    /\ min_max_conjunct_ctxs = <<>>
    /\ row_group_skip = NoRet

\* an empty Chunk: no columns
EmptyChunk == [slot_id_to_index |-> EmptyMap, columns |-> <<>>]
NoParams == [conjuncts_A |-> <<>>, conjunct_N |-> "none", enable_orc_late_materialization |-> FALSE,
             min_max |-> FALSE, slot_order |-> <<>>]
NoLazyLoadCtx == [active_load_slots |-> <<>>, active_load_indices |-> <<>>,
                  lazy_load_slots |-> <<>>, lazy_load_indices |-> <<>>, installed |-> FALSE]

InitDictIdle ==
    /\ init_use_dict_filter_slots = FALSE
    /\ use_dict_filter_slots = <<>>
    /\ dict_filter_eval_cache = EmptyMap

\* the binary builder's calls: nothing called yet.  commits: for the commits made
\* since the last resize, while they came row by row in order (in_order), whether
\* the row was committed without bytes (set_null, append_empty); partial: bytes were
\* appended by append_partial and not committed yet; undo: the builder as it was
\* before the append_partial called last, the number of bytes that call appended
\* and whether rewind took them back in the next call; marked: a row was marked
\* null; flag_by_caller: the caller wrote the flag or the null bytes itself
NoProtocol == [bytes_at_resize |-> 0, commits |-> <<>>, in_order |-> FALSE,
               partial |-> FALSE, last_op |-> "other", undo |-> NoRet, marked |-> FALSE,
               flag_by_caller |-> FALSE]

\* the builders after construction: ColumnBuilder(chunk_size), NullableBinaryColumnBuilder()
InitBuilderIdle ==
    /\ column = <<>>
    /\ null_column = <<>>
    /\ has_null = FALSE
    /\ bytes = <<>>
    /\ offsets = <<0>>
    /\ appended = <<>>
    /\ built = NoRet
    /\ protocol = NoProtocol

\* ORCHdfsFileStream::ORCHdfsFileStream, with the statistics at zero
InitStreamIdle ==
    /\ cache_buffer = <<>>
    /\ cache_offset = 0
    /\ io_count = 0
    /\ bytes_read = 0
    /\ last_read = NoRet
    /\ last_prepare = NoRet

InitRestIdle ==
    /\ dict_skip = NoRet
    /\ InitBuilderIdle
    /\ InitStreamIdle

InitScanIdle ==
    /\ InitDictIdle
    /\ params = NoParams
    /\ should_skip_file = FALSE
    /\ orc_reader = FALSE
    /\ lazy_load_ctx = NoLazyLoadCtx
    /\ src_slot_descriptors = <<>>
    /\ dict_filter = <<>>
    /\ chunk_filter = <<>>
    /\ ck = EmptyChunk
    /\ file_left = 0
    /\ sdicts = EmptyMap
    /\ in_stripe = FALSE
    /\ batch = <<>>
    /\ chunk = EmptyChunk
    /\ chunk_before = EmptyChunk
    /\ open_status = "NONE"
    /\ status = "NONE"
    /\ turns = 0
    /\ survivors = <<>>
    /\ lazy_read = FALSE
    /\ mask_use = NoRet

InitRange ==
    /\ InitScanIdle
    /\ InitRestIdle
    /\ params_scan_ranges \in ScanRangeLists
    /\ scan_ranges = EmptyMap
    /\ current_stripe_index = 0
    /\ stripe_skip = NoRet
    /\ stripe_offset = 0
    /\ InitMinMaxIdle
    /\ pc = "new"

\* OrcRowReaderFilter::OrcRowReaderFilter
RangeConstruct ==
    /\ pc = "new"
    /\ scan_ranges' = InsertScanRanges(EmptyMap, params_scan_ranges)
    /\ current_stripe_index' = 0
    /\ pc' = "filter"
    /\ UNCHANGED <<restVars, params_scan_ranges, stripe_skip, stripe_offset, minMaxVars, scanVars>>

\* the decoder opens stripe stripeIndex, which starts at byte offset
RangeOpeningStripe ==
    /\ pc = "filter"
    /\ \E stripeIndex \in 0..1, offset \in 0..(MaxOffset + MaxLength) :
        /\ current_stripe_index' = stripeIndex
        /\ stripe_offset' = offset
        /\ stripe_skip' = Ret(filterOnOpeningStripe(scan_ranges, offset))
    /\ UNCHANGED <<restVars, params_scan_ranges, scan_ranges, minMaxVars, scanVars, pc>>

NextRange == RangeConstruct \/ RangeOpeningStripe

SpecRange == InitRange /\ [][NextRange]_vars

\* ---- claims of stage 1
SomeRangeContains(x) == \E i \in DOMAIN params_scan_ranges : InRange(params_scan_ranges[i], x)
AllRangesNonEmpty == \A i \in DOMAIN params_scan_ranges : params_scan_ranges[i].length > 0

\* C8 as stated: for every list of non-overlapping half-open ranges, the stripe is
\* skipped if and only if no assigned range contains its start offset.
C8_SkipIffInNoRange ==
    stripe_skip # NoRet => (stripe_skip[1] <=> ~SomeRangeContains(stripe_offset))

\* C8 amended: the equivalence holds when every assigned range is non-empty
\* (length > 0); a stripe in no range is skipped whatever the lengths are.
C8_SkipIffInNoNonEmptyRange ==
    stripe_skip # NoRet =>
        /\ (~SomeRangeContains(stripe_offset) => stripe_skip[1])
        /\ (AllRangesNonEmpty => (stripe_skip[1] <=> ~SomeRangeContains(stripe_offset)))

\* two adjacent non-empty ranges; the stripe starts where the second one does and is kept
C8_Witness ==
    /\ stripe_skip = Ret(FALSE)
    /\ Len(params_scan_ranges) = 2
    /\ AllRangesNonEmpty
    /\ \E i, j \in DOMAIN params_scan_ranges :
        /\ params_scan_ranges[i].offset + params_scan_ranges[i].length = stripe_offset
        /\ params_scan_ranges[j].offset = stripe_offset

\* ================================================================ stage 2
\* A slot of the min/max tuple descriptor together with what the row index of the
\* current row group holds for it:
\*   "stats"         the column is in the file and its statistics decode to min, max
\*   "no_row_index"  the column is in the file, rowIndexes has no entry for it
\*   "decode_error"  the column is in the file, decode_min_max_value fails
\*   "partition"     not in the file, a partition column with constant value min
\*   "not_found"     not in the file and no partition column
SlotKinds == {"stats", "no_row_index", "decode_error", "partition", "not_found"}
MinMaxSlot ==
    {s \in [kind : SlotKinds, min : Vals, max : Vals] :
        /\ s.min <= s.max
        /\ s.kind = "partition" => s.min = s.max
        /\ s.kind \in {"no_row_index", "decode_error", "not_found"} => (s.min = 0 /\ s.max = 0)}
TupleDescs ==
    {[present |-> TRUE, slots |-> ss] : ss \in SeqsUpTo(MinMaxSlot, MaxMinMaxSlots) \ {<<>>}}
\* a min/max conjunct: slot <op> c, c a literal (it may lie outside the column's values)
MinMaxOps == {"ge", "le"}
Literals == 0..(MaxVal + 1)
MinMaxPred == [slot : 1..MaxMinMaxSlots, op : MinMaxOps, c : Literals]

\* _reader->get_column_id_by_name(slot->col_name()) >= 0
column_in_file(slot) == slot.kind \in {"stats", "no_row_index", "decode_error"}

\* a slip the slot loop could have: a statistic that does not decode is passed over
RECURSIVE fill_min_max_ok_ignore_status(_)
fill_min_max_ok_ignore_status(slots) ==
    IF slots = <<>> THEN TRUE
    ELSE LET slot == Head(slots)
         IN IF column_in_file(slot) /\ slot.kind = "no_row_index" THEN FALSE
            ELSE fill_min_max_ok_ignore_status(Tail(slots))

\* the slot loop of filterMinMax: FALSE where it returns early (no statistics, or
\* they do not decode), TRUE where it runs to the end
RECURSIVE fill_min_max_ok(_)
fill_min_max_ok(slots) ==
    IF slots = <<>> THEN TRUE
    ELSE LET slot == Head(slots)
         IN IF column_in_file(slot)
            THEN IF slot.kind = "no_row_index" THEN FALSE
                 ELSE IF slot.kind = "decode_error" THEN FALSE
                 ELSE fill_min_max_ok(Tail(slots))
            ELSE fill_min_max_ok(Tail(slots))

\* row 0 of min_chunk and of max_chunk after the slot loop
min_chunk(slots) ==
    [i \in DOMAIN slots |-> IF slots[i].kind = "not_found" THEN NULLV ELSE slots[i].min]
max_chunk(slots) ==
    [i \in DOMAIN slots |-> IF slots[i].kind = "not_found" THEN NULLV
                            ELSE IF slots[i].kind = "partition" THEN slots[i].min
                            ELSE slots[i].max]

\* the conjunct's root expression on a one-row chunk: NULL on a NULL input,
\* else 1 or 0 (EVALUATE_NULL_IF_ERROR turns an error into NULL as well); IS NULL
\* is 1 on a NULL input and 0 otherwise
evaluate(pred, row) ==
    IF pred.op = "is_null" THEN (IF row[pred.slot] = NULLV THEN 1 ELSE 0)
    ELSE IF row[pred.slot] = NULLV THEN NULLV
    ELSE IF pred.op = "ge" THEN (IF row[pred.slot] >= pred.c THEN 1 ELSE 0)
    ELSE (IF row[pred.slot] <= pred.c THEN 1 ELSE 0)

\* col->get(0).get_int8() as the test "== 0" reads it: a NULL datum is not 0
get_int8(d) == IF d = NULLV THEN 1 ELSE d

\* a slip the conjunct loop could have: || for &&
RECURSIVE any_conjunct_false_or(_, _, _)
any_conjunct_false_or(ctxs, minrow, maxrow) ==
    IF ctxs = <<>> THEN FALSE
    ELSE LET min == get_int8(evaluate(Head(ctxs), minrow))
             max == get_int8(evaluate(Head(ctxs), maxrow))
         IN IF min = 0 \/ max = 0 THEN TRUE
            ELSE any_conjunct_false_or(Tail(ctxs), minrow, maxrow)

\* the conjunct loop of filterMinMax
RECURSIVE any_conjunct_false(_, _, _)
any_conjunct_false(ctxs, minrow, maxrow) ==
    IF ctxs = <<>> THEN FALSE
    ELSE LET min == get_int8(evaluate(Head(ctxs), minrow))
             max == get_int8(evaluate(Head(ctxs), maxrow))
         IN IF min = 0 /\ max = 0 THEN TRUE
            ELSE any_conjunct_false(Tail(ctxs), minrow, maxrow)

\* OrcRowReaderFilter::filterMinMax: TRUE = skip the row group
filterMinMax(desc, ctxs) ==
    IF ~fill_min_max_ok(desc.slots) THEN FALSE
    ELSE any_conjunct_false(ctxs, min_chunk(desc.slots), max_chunk(desc.slots))

\* a slip filterOnPickRowGroup could have: the fall-through returns true
filterOnPickRowGroup_default_true(desc, ctxs) ==
    IF desc.present
    THEN (IF filterMinMax(desc, ctxs) THEN TRUE ELSE FALSE)
    ELSE TRUE

\* OrcRowReaderFilter::filterOnPickRowGroup: TRUE = skip the row group
filterOnPickRowGroup(desc, ctxs) ==
    IF desc.present
    THEN (IF filterMinMax(desc, ctxs) THEN TRUE ELSE FALSE)
    ELSE FALSE

\* the conjuncts refer to slots of the descriptor
ConjunctsFit(desc, ctxs) ==
    desc.present => \A i \in DOMAIN ctxs : ctxs[i].slot \in DOMAIN desc.slots

InitMinMax ==
    /\ InitFilterIdle
    /\ InitScanIdle
    /\ InitRestIdle
    /\ min_max_tuple_desc \in TupleDescs \cup {NoDesc}
    /\ min_max_conjunct_ctxs \in SeqsUpTo(MinMaxPred, MaxMinMaxPreds)
    /\ ConjunctsFit(min_max_tuple_desc, min_max_conjunct_ctxs)
    /\ row_group_skip = NoRet
    /\ pc = "filter"

\* the decoder picks the row group whose statistics min_max_tuple_desc carries
MinMaxPickRowGroup ==
    /\ pc = "filter"
    /\ row_group_skip' = Ret(filterOnPickRowGroup(min_max_tuple_desc, min_max_conjunct_ctxs))
    /\ pc' = "picked"
    /\ UNCHANGED <<restVars, rangeVars, min_max_tuple_desc, min_max_conjunct_ctxs, scanVars>>

\* the decoder goes on to the next row group, which has the same statistics
MinMaxNextRowGroup ==
    /\ pc = "picked"
    /\ row_group_skip' = NoRet
    /\ pc' = "filter"
    /\ UNCHANGED <<restVars, rangeVars, min_max_tuple_desc, min_max_conjunct_ctxs, scanVars>>

NextMinMax == MinMaxPickRowGroup \/ MinMaxNextRowGroup

SpecMinMax == InitMinMax /\ [][NextMinMax]_vars

\* ---- claims of stage 2
\* statistics are available: every slot that is in the file has row-index
\* statistics that decode
StatsAvailable ==
    \A i \in DOMAIN min_max_tuple_desc.slots :
        min_max_tuple_desc.slots[i].kind \notin {"no_row_index", "decode_error"}
\* the conjunct is logically false on the all-mins row and on the all-maxes row
FalseOnBoth(pred) ==
    /\ evaluate(pred, min_chunk(min_max_tuple_desc.slots)) = 0
    /\ evaluate(pred, max_chunk(min_max_tuple_desc.slots)) = 0
Picked == pc = "picked" /\ row_group_skip # NoRet

\* C9 as stated: with a descriptor and statistics, the row group is skipped if and
\* only if EVERY min/max conjunct is false on both the min row and the max row.
C9_SkipIffEveryFalse ==
    (Picked /\ min_max_tuple_desc.present /\ StatsAvailable) =>
        (row_group_skip[1] <=>
            \A i \in DOMAIN min_max_conjunct_ctxs : FalseOnBoth(min_max_conjunct_ctxs[i]))

\* C9 amended: with a descriptor and statistics, the row group is skipped if and
\* only if AT LEAST ONE min/max conjunct is false on both the min row and the max row.
C9_SkipIffSomeFalse ==
    (Picked /\ min_max_tuple_desc.present /\ StatsAvailable) =>
        (row_group_skip[1] <=>
            \E i \in DOMAIN min_max_conjunct_ctxs : FalseOnBoth(min_max_conjunct_ctxs[i]))

\* two conjuncts, only the second false on both rows: the row group is skipped
C9_Witness ==
    /\ Picked /\ min_max_tuple_desc.present /\ StatsAvailable
    /\ Len(min_max_conjunct_ctxs) = 2
    /\ ~FalseOnBoth(min_max_conjunct_ctxs[1])
    /\ FalseOnBoth(min_max_conjunct_ctxs[2])
    /\ row_group_skip = Ret(TRUE)

\* C10: with a descriptor and statistics, one conjunct false on both rows is enough
\* to skip the row group, and with no such conjunct it is kept; without a
\* descriptor the statistics stage never skips.
C10_AnyFalseSkips ==
    Picked =>
        /\ (min_max_tuple_desc.present /\ StatsAvailable
              /\ (\E i \in DOMAIN min_max_conjunct_ctxs : FalseOnBoth(min_max_conjunct_ctxs[i]))
            => row_group_skip[1])
        /\ (min_max_tuple_desc.present /\ StatsAvailable
              /\ ~(\E i \in DOMAIN min_max_conjunct_ctxs : FalseOnBoth(min_max_conjunct_ctxs[i]))
            => ~row_group_skip[1])
        /\ (~min_max_tuple_desc.present => ~row_group_skip[1])

\* the first conjunct is true on the max row, a later one is false on both: skipped
C10_Witness ==
    /\ Picked /\ min_max_tuple_desc.present /\ StatsAvailable
    /\ Len(min_max_conjunct_ctxs) = 2
    /\ evaluate(min_max_conjunct_ctxs[1], max_chunk(min_max_tuple_desc.slots)) = 1
    /\ evaluate(min_max_conjunct_ctxs[1], min_chunk(min_max_tuple_desc.slots)) = 0
    /\ FalseOnBoth(min_max_conjunct_ctxs[2])
    /\ row_group_skip = Ret(TRUE)

\* ================================================================ stage 3
\* HdfsOrcScanner::do_open and do_get_next over a file whose stripes and row
\* groups the decoder produces one at a time.  The scan requests three slots:
\* A and B are columns of the file, N is not.  A carries the values 0..MaxVal,
\* B carries the row's identity, N is backfilled with nulls.

\* ---- Chunk: columns in position order and the slot -> position map
num_rows(c) == IF c.columns = <<>> THEN 0 ELSE Len(c.columns[1])

append_column(c, col, slot) ==
    [slot_id_to_index |-> MapInsert(c.slot_id_to_index, slot, Len(c.columns) + 1),
     columns |-> Append(c.columns, col)]

get_column_by_slot_id(c, slot) == c.columns[c.slot_id_to_index[slot]]

\* Column::filter: keeps the rows whose filter byte is not 0
RECURSIVE filter_column(_, _)
filter_column(col, filter) ==
    IF col = <<>> \/ filter = <<>> THEN <<>>
    ELSE (IF Head(filter) # 0 THEN <<Head(col)>> ELSE <<>>)
         \o filter_column(Tail(col), Tail(filter))

\* Chunk::filter
Chunk_filter(c, filter) ==
    [c EXCEPT !.columns = [i \in DOMAIN c.columns |-> filter_column(c.columns[i], filter)]]

\* Chunk::set_num_rows: every column is resized to n rows
set_num_rows(c, n) ==
    [c EXCEPT !.columns = [i \in DOMAIN c.columns |-> SubSeq(c.columns[i], 1, n)]]

\* the slot that sits at position i of chunk c
slot_at(c, i) == CHOOSE s \in DOMAIN c.slot_id_to_index : c.slot_id_to_index[s] = i

\* Chunk::merge: the other chunk's columns are appended with their slots
RECURSIVE merge_from(_, _, _)
merge_from(c, other, i) ==
    IF i > Len(other.columns) THEN c
    ELSE merge_from(append_column(c, other.columns[i], slot_at(other, i)), other, i + 1)
merge(c, other) == merge_from(c, other, 1)

\* number of rows a filter keeps
RECURSIVE count_ones(_)
count_ones(filter) ==
    IF filter = <<>> THEN 0
    ELSE (IF Head(filter) # 0 THEN 1 ELSE 0) + count_ones(Tail(filter))

\* ---- what a scan is created with
\* _scanner_params.materialize_slots, in the table's order
materialize_slots == <<"A", "N", "B">>
\* the columns the file has (build_column_name_set)
known_column_names == {"A", "B"}
\* the conjuncts on A: none, or A >= c
ConjunctCtxs == {<<>>} \cup {<<[slot |-> 1, op |-> "ge", c |-> c]>> : c \in Literals}
\* the caller's chunk: slot -> position
CallerOrders == {("B" :> 1) @@ ("A" :> 2) @@ ("N" :> 3)}
\* the conjuncts on the absent slot N: none, or false / failing on its null value
NotExistedConjuncts == {"none", "unsat", "error"}
ScanParams ==
    [conjuncts_A : ConjunctCtxs, conjunct_N : NotExistedConjuncts,
     enable_orc_late_materialization : BOOLEAN, min_max : BOOLEAN,
     slot_order : CallerOrders]

\* the slots of _conjunct_ctxs_by_slot
conjunct_ctxs_by_slot(p) ==
    (IF p.conjuncts_A # <<>> THEN {"A"} ELSE {}) \cup
    (IF p.conjunct_N # "none" THEN {"N"} ELSE {})

\* HdfsScannerContext::should_skip_by_evaluating_not_existed_slots: the conjuncts
\* on absent slots, evaluated on a row of nulls
should_skip_by_evaluating_not_existed_slots(p) ==
    CASE p.conjunct_N = "error" -> "error"
      [] p.conjunct_N = "unsat" -> "skip"
      [] OTHER -> "noskip"

\* a slip: every slot without conjuncts is lazy, also when no slot has any
is_lazy_slot_without_conjuncts(by_slot, it) == it \notin by_slot

\* has_conjunct_ctxs_by_slot && _conjunct_ctxs_by_slot.find(it->id()) == end(): the
\* slot is lazy when some slot has conjuncts and this one has none
is_lazy_slot(by_slot, it) == by_slot # {} /\ it \notin by_slot

\* the loop of do_open over materialize_slots: active / lazy partition
RECURSIVE partition_slots(_, _, _, _)
partition_slots(ms, src_slot_index, by_slot, ctx) ==
    IF ms = <<>> THEN ctx
    ELSE LET it == Head(ms)
         IN IF it \notin known_column_names
            THEN partition_slots(Tail(ms), src_slot_index, by_slot, ctx)
            ELSE IF is_lazy_slot(by_slot, it)
            THEN partition_slots(Tail(ms), src_slot_index + 1, by_slot,
                     [ctx EXCEPT !.lazy_load_slots = Append(@, it),
                                 !.lazy_load_indices = Append(@, src_slot_index)])
            ELSE partition_slots(Tail(ms), src_slot_index + 1, by_slot,
                     [ctx EXCEPT !.active_load_slots = Append(@, it),
                                 !.active_load_indices = Append(@, src_slot_index)])

\* _src_slot_descriptors: the materialize slots the file has, in order
src_slots(ms) == SelectSeq(ms, LAMBDA it : it \in known_column_names)

\* the caller hands do_get_next a chunk with its slots and no rows
CallerChunk(order) ==
    [slot_id_to_index |-> order, columns |-> [i \in 1..Cardinality(DOMAIN order) |-> <<>>]]

\* the scanner after construction and do_init, over a file of at most MaxFileParts parts;
\* the scan is assigned the range [0, 1)
Init ==
    /\ InitDictIdle
    /\ InitRestIdle
    /\ params_scan_ranges = <<[offset |-> 0, length |-> 1]>>
    /\ scan_ranges = EmptyMap
    /\ current_stripe_index = 0
    /\ stripe_skip = NoRet
    /\ stripe_offset = 0
    /\ params \in ScanParams
    /\ min_max_tuple_desc = NoDesc
    /\ min_max_conjunct_ctxs = params.conjuncts_A
    /\ row_group_skip = NoRet
    /\ should_skip_file = FALSE
    /\ orc_reader = FALSE
    /\ lazy_load_ctx = NoLazyLoadCtx
    /\ src_slot_descriptors = <<>>
    /\ dict_filter = <<>>
    /\ chunk_filter = <<>>
    /\ ck = EmptyChunk
    /\ file_left = MaxFileParts
    /\ sdicts = EmptyMap
    /\ in_stripe = FALSE
    /\ batch = <<>>
    /\ chunk = CallerChunk(params.slot_order)
    /\ chunk_before = chunk
    /\ open_status = "NONE"
    /\ status = "NONE"
    /\ turns = 0
    /\ survivors = <<>>
    /\ lazy_read = FALSE
    /\ mask_use = NoRet
    /\ pc = "init"

\* a slip do_open could have: the flag is not set
skip_file_flag_unset(skip) == FALSE

\* what do_open leaves in _should_skip_file when the absent-slot conjuncts say skip
skip_file_flag(skip) == skip

\* HdfsOrcScanner::do_open.  create: orc::createReader throws or not;
\* init_st: the status of set_timezone / OrcChunkReader::init
do_open ==
    /\ pc = "init"
    /\ \E create \in {"ok", "throw"}, init_st \in {"OK", "ERR"} :
        LET skip == should_skip_by_evaluating_not_existed_slots(params)
            ctx == partition_slots(materialize_slots, 0, conjunct_ctxs_by_slot(params),
                                   NoLazyLoadCtx)
        IN IF create = "throw" \/ skip = "error"
           THEN /\ open_status' = "ERR"
                /\ pc' = "failed"
                /\ UNCHANGED <<should_skip_file, orc_reader, lazy_load_ctx,
                               src_slot_descriptors, scan_ranges>>
           ELSE IF skip = "skip"
           THEN /\ should_skip_file' = skip_file_flag(TRUE)
                /\ open_status' = "OK"
                /\ pc' = "idle"
                /\ UNCHANGED <<orc_reader, lazy_load_ctx, src_slot_descriptors, scan_ranges>>
           ELSE /\ lazy_load_ctx' =
                       [ctx EXCEPT !.installed = params.enable_orc_late_materialization
                                                  /\ Len(ctx.lazy_load_slots) # 0]
                /\ src_slot_descriptors' = src_slots(materialize_slots)
                /\ orc_reader' = TRUE
                /\ scan_ranges' = InsertScanRanges(EmptyMap, params_scan_ranges)
                /\ open_status' = init_st
                /\ pc' = IF init_st = "OK" THEN "idle" ELSE "failed"
                /\ UNCHANGED should_skip_file
    /\ UNCHANGED <<restVars, params_scan_ranges, current_stripe_index, stripe_skip, stripe_offset,
                   minMaxVars, dictVars, params, dict_filter, chunk_filter, ck,
                   decoderVars, chunk, chunk_before, status, turns, survivors, lazy_read,
                   mask_use>>

\* do_get_next up to its retry loop (lines 453-470), called with a fresh chunk
GetNext ==
    /\ pc = "idle"
    /\ chunk' = CallerChunk(params.slot_order)
    /\ chunk_before' = chunk'
    /\ IF should_skip_file
       THEN /\ status' = "EOF"
            /\ turns' = 0
            /\ pc' = "idle"
       ELSE /\ status' = "NONE"
            /\ turns' = 1
            /\ pc' = "read_next"
    /\ ck' = EmptyChunk
    /\ survivors' = <<>>
    /\ lazy_read' = FALSE
    /\ mask_use' = NoRet
    /\ UNCHANGED <<restVars, rangeVars, minMaxVars, dictVars, params, should_skip_file, orc_reader,
                   lazy_load_ctx, src_slot_descriptors, dict_filter, chunk_filter,
                   decoderVars, open_status>>

\* ---- the dictionary stage of OrcRowReaderFilter
\* std::unordered_map::operator[] assignment
MapPut(m, k, v) == [x \in (DOMAIN m) \cup {k} |-> IF x = k THEN v ELSE m[x]]

\* a stripe's dictionary of A: distinct values in ascending order
RECURSIVE SortedSeq(_)
SortedSeq(S) == IF S = {} THEN <<>> ELSE <<Min(S)>> \o SortedSeq(S \ {Min(S)})
\* the string dictionaries of a stripe: none, one for B only, or one for A
StripeDicts ==
    {EmptyMap, "B" :> <<0>>} \cup {"A" :> SortedSeq(S) : S \in (SUBSET Vals) \ {{}}}

\* every conjunct of the group is true on value v (a null value passes none)
Passes(ctxs, v) == \A i \in DOMAIN ctxs : evaluate(ctxs[i], <<v>>) = 1

\* _scanner_ctx.conjunct_ctxs_by_slot.at(slot): A's conjuncts, and B's where the scan
\* was given any
conjunct_ctxs_of(p, slot) ==
    IF slot = "A" THEN p.conjuncts_A
    ELSE IF slot = "B" /\ "conjuncts_B" \in DOMAIN p THEN p.conjuncts_B
    ELSE <<>>

\* HdfsScannerContext::can_use_dict_filter_on_slot: a string slot that has conjuncts
can_use_dict_filter_on_slot(p, slot) == slot \in {"A", "B"} /\ conjunct_ctxs_of(p, slot) # <<>>

\* a slip the dictionary chunk could have: the trailing null row is never kept
eval_conjuncts_dict_no_null(ctxs, dict) ==
    [i \in 1..(Len(dict) + 1) |-> IF i <= Len(dict) /\ Passes(ctxs, dict[i]) THEN 1 ELSE 0]

\* ExecNode::eval_conjuncts on the dictionary chunk: the dictionary's values and
\* one trailing null; the filter has a 1 for every row the conjuncts keep
eval_conjuncts_dict(ctxs, dict) ==
    [i \in 1..(Len(dict) + 1) |->
        IF Passes(ctxs, IF i <= Len(dict) THEN dict[i] ELSE NULLV) THEN 1 ELSE 0]

\* the loop of filterOnPickStringDictionary over _use_dict_filter_slots
RECURSIVE dict_filter_loop(_, _, _, _)
dict_filter_loop(slots, sd, p, cache) ==
    IF slots = <<>> THEN [skip |-> FALSE, cache |-> cache]
    ELSE LET slot_id == Head(slots)
         IN IF slot_id \notin DOMAIN sd
            THEN dict_filter_loop(Tail(slots), sd, p, cache)
            ELSE IF Len(sd[slot_id]) + 1 > ChunkSize
            THEN dict_filter_loop(Tail(slots), sd, p, cache)
            ELSE LET filter == eval_conjuncts_dict(conjunct_ctxs_of(p, slot_id), sd[slot_id])
                 IN IF count_ones(filter) = 0
                    THEN [skip |-> TRUE, cache |-> EmptyMap]
                    ELSE dict_filter_loop(Tail(slots), sd, p, MapPut(cache, slot_id, filter))

\* OrcRowReaderFilter::filterOnPickStringDictionary on the filter's state
\* st = [init, slots, cache]; skip = TRUE: skip the stripe.  _can_do_filter_on_orc_cvb
\* is taken as set (the filter is cached); A is not of type CHAR, so no trailing
\* spaces are stripped
filterOnPickStringDictionary(sd, p, st) ==
    IF DOMAIN sd = {} THEN [skip |-> FALSE, init |-> st.init, slots |-> st.slots, cache |-> st.cache]
    ELSE LET slots == IF ~st.init
                      THEN SelectSeq(src_slots(materialize_slots),
                                     LAMBDA it : can_use_dict_filter_on_slot(p, it))
                      ELSE st.slots
             r == dict_filter_loop(slots, sd, p, EmptyMap)
         IN [skip |-> r.skip, init |-> TRUE, slots |-> slots, cache |-> r.cache]

\* OrcRowReaderFilter::is_slot_evaluated
is_slot_evaluated(cache, slot_id) == slot_id \in DOMAIN cache

\* ---- the decoder inside OrcChunkReader::read_next
\* a slip: EndOfFile from read_next is not returned, the loop asks again
read_next_return_retry(st) ==
    IF st = "OK" THEN "decoded" ELSE IF st = "EOF" THEN "read_next" ELSE "failed"

\* where do_get_next goes when read_next returns st (RETURN_IF_ERROR)
read_next_return(st) ==
    IF st = "OK" THEN "decoded" ELSE IF st = "EOF" THEN "idle" ELSE "failed"

\* the decoder opens the next stripe: filterOnOpeningStripe, then
\* filterOnPickStringDictionary with the stripe's dictionaries
DecoderOpenStripe ==
    /\ pc = "read_next"
    /\ file_left > 0
    /\ \E offset \in 0..1, sd \in StripeDicts :
        LET skip == filterOnOpeningStripe(scan_ranges, offset)
            r == filterOnPickStringDictionary(sd, params,
                     [init |-> init_use_dict_filter_slots, slots |-> use_dict_filter_slots,
                      cache |-> dict_filter_eval_cache])
        IN /\ current_stripe_index' = current_stripe_index + 1
           /\ IF skip
              THEN /\ in_stripe' = FALSE
                   /\ sdicts' = EmptyMap
                   /\ UNCHANGED dictVars
              ELSE /\ init_use_dict_filter_slots' = r.init
                   /\ use_dict_filter_slots' = r.slots
                   /\ dict_filter_eval_cache' = r.cache
                   /\ in_stripe' = ~r.skip
                   /\ sdicts' = IF r.skip THEN EmptyMap ELSE sd
    /\ file_left' = file_left - 1
    /\ UNCHANGED <<restVars, params_scan_ranges, scan_ranges, stripe_skip, stripe_offset, minMaxVars,
                   scannerVars, batch, callerVars, pc>>

\* the rows a row group of the open stripe can hold: the values of A, which are
\* the dictionary's when the stripe has one for A
RowGroups(sd) ==
    LET vs == IF "A" \in DOMAIN sd THEN Range(sd["A"]) ELSE Vals
    IN SeqsUpTo(vs, MaxRows) \ {<<>>}

\* the decoder comes to the next row group of the open stripe: filterOnPickRowGroup
\* with the group's statistics; a group that is kept is decoded and read_next returns
DecoderPickRowGroup ==
    /\ pc = "read_next"
    /\ in_stripe
    /\ file_left > 0
    /\ \E rows \in RowGroups(sdicts) :
        LET desc == IF params.min_max
                    THEN [present |-> TRUE,
                          slots |-> <<[kind |-> "stats", min |-> Min(Range(rows)),
                                       max |-> Max(Range(rows))]>>]
                    ELSE NoDesc
            skip == filterOnPickRowGroup(desc, min_max_conjunct_ctxs)
        IN IF skip
           THEN UNCHANGED <<batch, survivors, lazy_read, mask_use, pc>>
           ELSE /\ batch' = rows
                /\ survivors' = <<>>
                /\ lazy_read' = FALSE
                /\ mask_use' = NoRet
                /\ pc' = read_next_return("OK")
    /\ file_left' = file_left - 1
    /\ UNCHANGED <<restVars, rangeVars, minMaxVars, dictVars, scannerVars, sdicts,
                   in_stripe, chunk, chunk_before, open_status, status, turns>>

\* read_next finds no further row group, or fails reading one: do_get_next returns
\* that status.  A decoder that has reached the end of the file stays there
DecoderReturn ==
    /\ pc = "read_next"
    /\ \E st \in {"EOF", "ERR"} :
        /\ st = "ERR" => file_left > 0
        /\ pc' = read_next_return(st)
        /\ status' = IF pc' \in {"idle", "failed"} THEN st ELSE status
        /\ turns' = IF pc' = "read_next" THEN turns + 1 ELSE turns
        /\ turns <= MaxFileParts + 1
        /\ file_left' = IF st = "EOF" THEN 0 ELSE file_left
        /\ in_stripe' = IF st = "EOF" THEN FALSE ELSE in_stripe
    /\ UNCHANGED <<restVars, rangeVars, minMaxVars, dictVars, scannerVars, sdicts, batch,
                   chunk, chunk_before, open_status, survivors, lazy_read, mask_use>>

\* ---- one turn of do_get_next's retry loop after read_next returned OK
\* the places of the turn where a collaborator can return an error
ErrorPoints == {"none", "apply_dict_filter", "get_chunk", "eval_conjuncts", "get_lazy_chunk"}

\* the code of value v in dictionary dict
dict_code(dict, v) == CHOOSE i \in DOMAIN dict : dict[i] = v

\* the identity of row i of the position decoded last (the value of its B)
RowId(i) == file_left * (MaxRows + 1) + i

\* OrcChunkReader::apply_dict_filter_eval_cache: the filters it can leave in
\* *filter.  Without cached filters it does nothing; with one for A it looks up
\* each row's dictionary code; when the stripe has no dictionary for A the cached
\* filter belongs to another stripe and the row codes it is indexed with are not
\* codes of its dictionary
apply_dict_filter_eval_cache(cache, sd, rows, filter) ==
    IF DOMAIN cache = {} THEN {filter}
    ELSE IF "A" \in DOMAIN sd
    THEN {[i \in DOMAIN rows |-> cache["A"][dict_code(sd["A"], rows[i])]]}
    ELSE [DOMAIN rows -> {0, 1}]

\* the column of slot for the rows idx of the decoded position
column_values(slot, rows, idx) ==
    [k \in DOMAIN idx |-> IF slot = "A" THEN rows[idx[k]] ELSE RowId(idx[k])]

\* OrcChunkReader::get_chunk / get_active_chunk / get_lazy_chunk: the columns of
\* slots, in that order, for the rows idx the column vector batch holds
RECURSIVE build_chunk(_, _, _, _)
build_chunk(c, slots, rows, idx) ==
    IF slots = <<>> THEN c
    ELSE build_chunk(append_column(c, column_values(Head(slots), rows, idx), Head(slots)),
                     Tail(slots), rows, idx)

\* HdfsScannerContext::append_not_existed_columns_to_chunk: a column of row_count
\* nulls for the materialize slot the file does not have
append_not_existed_columns_to_chunk(c, row_count) ==
    append_column(c, [k \in 1..row_count |-> NULLV], "N")

\* ExecNode::eval_conjuncts_into_filter: the filter keeps the rows it kept before
\* on which every conjunct is true
eval_conjuncts_into_filter(ctxs, col, filter) ==
    [i \in DOMAIN filter |-> IF filter[i] # 0 /\ Passes(ctxs, col[i]) THEN 1 ELSE 0]

\* what reading a column the chunk does not have can yield
UndefinedColumns == {<<>>, <<0>>}

\* the lambda convert_to_output: every column of *chunk is swapped with ck's column
\* of the same slot; ck->get_column_by_slot_id of a slot ck does not have is
\* undefined.  The set of chunks *chunk can become
convert_to_output(c, k) ==
    LET cand(i) == IF slot_at(c, i) \in DOMAIN k.slot_id_to_index
                   THEN {get_column_by_slot_id(k, slot_at(c, i))}
                   ELSE UndefinedColumns
    IN {[c EXCEPT !.columns = cols] :
            cols \in {f \in [DOMAIN c.columns -> UNION {cand(i) : i \in DOMAIN c.columns}] :
                         \A i \in DOMAIN c.columns : f[i] \in cand(i)}}

\* a slip: convert_to_output before the status of the last collaborator is looked at
chunk_on_return_converted(st, c, k) == convert_to_output(c, k)

\* *chunk when do_get_next returns st: convert_to_output runs only on the way to
\* return Status::OK()
chunk_on_return(st, c, k) == IF st = "OK" THEN convert_to_output(c, k) ELSE {c}

\* a slip: the turn never goes round
retry_on_empty_never(chunk_size) == FALSE

\* if (chunk_size == 0) continue;
retry_on_empty(chunk_size) == chunk_size = 0

\* a slip: the lazy columns are read for the rows the dictionary filter left
lazy_read_num_values_of_cvb(read_num_values, cvb_size) == cvb_size

\* _orc_reader->lazy_read_next(read_num_values): the lazy columns are read for the
\* rows of the position as they were before dictionary filtering
lazy_read_num_values(read_num_values, cvb_size) == read_num_values

\* a slip: the dictionary mask is applied to the lazy columns in every step
lazy_dict_mask_always(has_used_dict_filter) == TRUE

\* if (has_used_dict_filter) lazy_filter_on_cvb(&_dict_filter): is the dictionary
\* mask applied to the lazily decoded columns
lazy_dict_mask_applied(has_used_dict_filter) == has_used_dict_filter

\* the turn ends: do_get_next returns st, or goes round (st = "NONE")
StepEnd(st, df, cf, k, surv, lz) ==
    /\ status' = st
    /\ pc' = IF st = "NONE" THEN "read_next" ELSE IF st = "OK" THEN "idle" ELSE "failed"
    /\ turns' = IF st = "NONE" THEN turns + 1 ELSE turns
    /\ dict_filter' = df
    /\ chunk_filter' = cf
    /\ ck' = IF st = "NONE" THEN k ELSE EmptyChunk
    /\ chunk' \in chunk_on_return(st, chunk, k)
    /\ survivors' = surv
    /\ lazy_read' = lz

\* lines 480-558 of do_get_next
ReadStep ==
    /\ pc = "decoded"
    /\ \E err \in ErrorPoints,
          df \in apply_dict_filter_eval_cache(dict_filter_eval_cache, sdicts, batch, dict_filter) :
        LET read_num_values == Len(batch)
            all == [i \in 1..read_num_values |-> i]
            cvb == IF DOMAIN dict_filter_eval_cache = {} THEN all ELSE filter_column(all, df)
            has_used_dict_filter == Len(cvb) # read_num_values
            lazy == lazy_load_ctx.installed
            k0 == IF ~lazy THEN build_chunk(EmptyChunk, src_slot_descriptors, batch, cvb)
                  ELSE build_chunk(EmptyChunk, lazy_load_ctx.active_load_slots, batch, cvb)
            k1 == append_not_existed_columns_to_chunk(k0, num_rows(k0))
            ones == [i \in 1..num_rows(k1) |-> 1]
            evalA == /\ params.conjuncts_A # <<>>
                     /\ ~is_slot_evaluated(dict_filter_eval_cache, "A")
            cf == IF evalA
                  THEN eval_conjuncts_into_filter(params.conjuncts_A,
                                                  get_column_by_slot_id(k1, "A"), ones)
                  ELSE ones
            k2 == IF count_ones(cf) # 0 /\ count_ones(cf) # num_rows(k1)
                  THEN Chunk_filter(k1, cf) ELSE k1
            chunk_size == IF cvb # <<>> THEN count_ones(cf) ELSE 0
            cf3 == IF cvb # <<>> THEN cf ELSE chunk_filter
            k3 == set_num_rows(IF cvb # <<>> THEN k2 ELSE ck, chunk_size)
            surv == IF cvb # <<>> THEN filter_column(cvb, cf) ELSE <<>>
            use_dict == lazy_dict_mask_applied(has_used_dict_filter)
            lz0 == [i \in 1..lazy_read_num_values(read_num_values, Len(cvb)) |-> i]
            lz1 == IF use_dict THEN filter_column(lz0, df) ELSE lz0
            lz2 == filter_column(lz1, cf3)
            k4 == merge(k3, build_chunk(EmptyChunk, lazy_load_ctx.lazy_load_slots, batch, lz2))
            \* how far the turn came: past apply_dict_filter_eval_cache, to line 510,
            \* past the conjuncts, to the lazy columns
            passed == err # "apply_dict_filter"
            assigned == passed /\ cvb # <<>> /\ err # "get_chunk"
            evaluated == assigned /\ ~(evalA /\ err = "eval_conjuncts")
            at_lazy == /\ passed /\ (cvb = <<>> \/ evaluated)
                       /\ lazy /\ ~retry_on_empty(chunk_size)
            used == [dict_rebuilt |-> passed /\ DOMAIN dict_filter_eval_cache # {},
                     dict_applied |-> \/ passed /\ DOMAIN dict_filter_eval_cache # {}
                                      \/ at_lazy /\ use_dict,
                     dict_size |-> Len(df),
                     chunk_rebuilt |-> assigned,
                     chunk_applied |-> \/ /\ evaluated
                                          /\ count_ones(cf) # 0 /\ count_ones(cf) # num_rows(k1)
                                       \/ at_lazy,
                     chunk_size |-> Len(IF assigned THEN cf ELSE chunk_filter),
                     read_num_values |-> read_num_values,
                     cvb_size |-> Len(cvb)]
        IN /\ mask_use' = Ret(used)
           /\ IF err = "apply_dict_filter"
              THEN StepEnd("ERR", dict_filter, chunk_filter, ck, <<>>, FALSE)
              ELSE IF cvb # <<>> /\ err = "get_chunk"
              THEN StepEnd("ERR", df, chunk_filter, ck, <<>>, FALSE)
              ELSE IF cvb # <<>> /\ evalA /\ err = "eval_conjuncts"
              THEN StepEnd("ERR", df, ones, k1, <<>>, FALSE)
              ELSE IF ~lazy
              THEN StepEnd("OK", df, cf3, k3, surv, FALSE)
              ELSE IF retry_on_empty(chunk_size)
              THEN StepEnd("NONE", df, cf3, k3, surv, FALSE)
              ELSE IF err = "get_lazy_chunk"
              THEN StepEnd("ERR", df, cf3, k3, surv, TRUE)
              ELSE StepEnd("OK", df, cf3, k4, surv, TRUE)
    /\ UNCHANGED <<restVars, rangeVars, minMaxVars, dictVars, params, should_skip_file, orc_reader,
                   lazy_load_ctx, src_slot_descriptors, decoderVars, chunk_before,
                   open_status>>

Next == do_open \/ GetNext \/ DecoderOpenStripe \/ DecoderPickRowGroup \/ DecoderReturn \/ ReadStep

Spec == Init /\ [][Next]_vars

\* ---------------------------------------------------------------- claims of stage 3
\* do_get_next has returned st
Returned(st) == pc \in {"idle", "failed"} /\ status = st
\* the rows of the decoded position on which every conjunct is true
SatisfyingRows == SelectSeq([i \in DOMAIN batch |-> i], LAMBDA i : Passes(params.conjuncts_A, batch[i]))
\* the column of slot for the rows idx of the decoded position
ColumnFor(slot, idx) ==
    [k \in DOMAIN idx |-> IF slot = "A" THEN batch[idx[k]]
                          ELSE IF slot = "B" THEN RowId(idx[k]) ELSE NULLV]
\* chunk c holds exactly the rows idx, every slot's column its own values
HoldsRows(c, idx) ==
    \A s \in DOMAIN c.slot_id_to_index : get_column_by_slot_id(c, s) = ColumnFor(s, idx)

\* C1: every chunk get_next emits holds exactly the rows of the position it
\* decoded that satisfy every conjunct, each once and in file order (so that the
\* chunks of a scan add up to the satisfying rows of the row groups not pruned).
C1_EmitsSatisfyingRows ==
    Returned("OK") => HoldsRows(chunk, SatisfyingRows)

\* C2: on every OK return the caller's chunk keeps its slot -> position map and
\* every slot's column holds what this read step produced for that slot: the
\* values of the rows the step kept, whatever their number.
C2_OutputBySlot ==
    Returned("OK") =>
        /\ chunk.slot_id_to_index = chunk_before.slot_id_to_index
        /\ HoldsRows(chunk, survivors)

\* C3: when get_next returns an error or EndOfFile the caller's chunk is as it
\* was before the call.
C3_NonOkLeavesChunk ==
    (Returned("ERR") \/ Returned("EOF")) => chunk = chunk_before

\* get_lazy_chunk failed after the active chunk was built with rows: the caller's
\* chunk has none
C3_Witness ==
    /\ Returned("ERR") /\ lazy_read /\ survivors # <<>>
    /\ chunk = CallerChunk(params.slot_order)

\* C4: while a lazy-load context is installed, a read step that keeps no row does
\* not emit, so every OK return carries at least one row in every column.
C4_LazyEmitsRows ==
    (Returned("OK") /\ lazy_load_ctx.installed) =>
        /\ survivors # <<>>
        /\ num_rows(chunk) >= 1
        /\ \A i \in DOMAIN chunk.columns : Len(chunk.columns[i]) = Len(survivors)

\* a first position lost every row, the loop went round and the next one was emitted
C4_Witness ==
    /\ Returned("OK") /\ lazy_load_ctx.installed
    /\ file_left = MaxFileParts - 3
    /\ current_stripe_index = 1
    /\ num_rows(chunk) = 1 /\ Len(batch) = 2

\* C5: with a predicate on A only and the lazy-load context installed, B is
\* lazily decoded only at a position that has a row satisfying A's predicates.
C5_LazyDecodeOnlyWithSatisfyingRow ==
    (lazy_read /\ params.conjuncts_A # <<>> /\ lazy_load_ctx.installed) =>
        SatisfyingRows # <<>>

\* C6: every get_next call terminates: each turn of the retry loop but the last
\* takes at least one stripe or row group from what the file still holds, so a call
\* makes at most one turn more than the file has parts and then has returned OK,
\* an error or EndOfFile.
C6_GetNextTerminates == turns + file_left <= MaxFileParts + 1

\* a call that went round the loop twice and then returned EndOfFile
C6_Witness == Returned("EOF") /\ turns >= 3 /\ ck # EmptyChunk

\* do_open found the conjuncts on the absent slot unsatisfiable
OpenSkipped == params.conjunct_N = "unsat" /\ pc \notin {"init", "failed"}

\* C7: when open finds the conjuncts on absent slots unsatisfiable it returns OK
\* and builds no decoder, and every get_next after it returns EndOfFile with the
\* decoder and the caller's chunk untouched.
C7_SkippedFileIsDone ==
    OpenSkipped =>
        /\ ~orc_reader
        /\ pc = "idle"
        /\ open_status = "OK"
        /\ status \in {"NONE", "EOF"}
        /\ chunk = chunk_before /\ chunk = CallerChunk(params.slot_order)
        /\ file_left = MaxFileParts /\ ~in_stripe /\ batch = <<>>
        /\ current_stripe_index = 0

\* get_next was called on the skipped file and returned EndOfFile
C7_Witness == OpenSkipped /\ should_skip_file /\ status = "EOF" /\ ~orc_reader

\* ---- claims of stage 2, continued
\* some slot of the descriptor is in the file and has no row-index statistics for
\* the row group, or statistics that do not decode
StatsUnavailable ==
    /\ min_max_tuple_desc.present
    /\ \E i \in DOMAIN min_max_tuple_desc.slots :
           min_max_tuple_desc.slots[i].kind \in {"no_row_index", "decode_error"}

\* C12: a row group for which some slot in the file has no row-index statistics, or
\* statistics that do not decode, is not skipped, whatever the conjuncts are; the
\* hook returns false and nothing else (it has no error to return)
C12_NoStatsNeverPrunes ==
    (pc = "picked" /\ StatsUnavailable) => row_group_skip = Ret(FALSE)

\* the statistics of a slot do not decode and a conjunct is there that is false
\* on the 0 the slot would read as; the row group is kept
C12_Witness ==
    /\ pc = "picked"
    /\ StatsUnavailable
    /\ \E i \in DOMAIN min_max_tuple_desc.slots, k \in DOMAIN min_max_conjunct_ctxs :
           /\ min_max_tuple_desc.slots[i].kind = "decode_error"
           /\ min_max_conjunct_ctxs[k] = [slot |-> i, op |-> "ge", c |-> 1]
    /\ row_group_skip = Ret(FALSE)

\* ================================================================ stage 4
\* filterOnPickStringDictionary on its own: a filter whose scan has conjuncts on
\* the string slots A and B is handed the dictionaries of one stripe after another
\* a dictionary's values: one more than a column's, so that a dictionary can be
\* larger than the chunk size allows
DictVals == 0..(MaxVal + 1)
\* the conjuncts on a string slot: those of the scan, or IS NULL
DictConjunctCtxs == ConjunctCtxs \cup {<<[slot |-> 1, op |-> "is_null", c |-> 0]>>}
DictScanParams ==
    [conjuncts_A : DictConjunctCtxs, conjuncts_B : DictConjunctCtxs, conjunct_N : {"none"},
     enable_orc_late_materialization : {FALSE}, min_max : {FALSE}, slot_order : CallerOrders]
\* the dictionaries a stripe can carry: of A none, or any set of values (the empty
\* one included); of B none or a single value
DictsOfA == {EmptyMap} \cup {"A" :> SortedSeq(S) : S \in SUBSET DictVals}
DictsOfB == {EmptyMap, "B" :> <<0>>, "B" :> <<MaxVal + 1>>}
DictStripeDicts == {a @@ b : a \in DictsOfA, b \in DictsOfB}

InitDict ==
    /\ InitFilterIdle
    /\ InitMinMaxIdle
    /\ InitDictIdle
    /\ InitRestIdle
    /\ params \in DictScanParams
    /\ should_skip_file = FALSE
    /\ orc_reader = TRUE
    /\ lazy_load_ctx = NoLazyLoadCtx
    /\ src_slot_descriptors = src_slots(materialize_slots)
    /\ dict_filter = <<>>
    /\ chunk_filter = <<>>
    /\ ck = EmptyChunk
    /\ file_left = 0
    /\ sdicts = EmptyMap
    /\ in_stripe = FALSE
    /\ batch = <<>>
    /\ chunk = EmptyChunk
    /\ chunk_before = EmptyChunk
    /\ open_status = "NONE"
    /\ status = "NONE"
    /\ turns = 0
    /\ survivors = <<>>
    /\ lazy_read = FALSE
    /\ mask_use = NoRet
    /\ pc = "dict"

\* the decoder hands the filter the string dictionaries of the next stripe
DictPickStringDictionary ==
    /\ pc = "dict"
    /\ \E sd \in DictStripeDicts :
        LET r == filterOnPickStringDictionary(sd, params,
                     [init |-> init_use_dict_filter_slots, slots |-> use_dict_filter_slots,
                      cache |-> dict_filter_eval_cache])
        IN /\ init_use_dict_filter_slots' = r.init
           /\ use_dict_filter_slots' = r.slots
           /\ dict_filter_eval_cache' = r.cache
           /\ sdicts' = sd
           /\ dict_skip' = Ret(r.skip)
    /\ UNCHANGED <<rangeVars, minMaxVars, scannerVars, file_left, in_stripe, batch,
                   callerVars, builderVars, streamVars, pc>>

NextDict == DictPickStringDictionary

SpecDict == InitDict /\ [][NextDict]_vars

\* slot s qualifies for the stripe whose dictionaries are in sdicts: it is a string
\* slot with conjuncts, the stripe has a dictionary for it and the dictionary with
\* its trailing null fits a chunk
QualifyingSlot(s) ==
    /\ conjunct_ctxs_of(params, s) # <<>>
    /\ s \in DOMAIN sdicts
    /\ Len(sdicts[s]) + 1 <= ChunkSize
\* the rows of the dictionary chunk of s: the distinct values, then one null
DictRows(s) == sdicts[s] \o <<NULLV>>
\* is row i of the dictionary chunk of s kept by every conjunct on s
KeepsDictRow(s, i) ==
    \A k \in DOMAIN conjunct_ctxs_of(params, s) :
        evaluate(conjunct_ctxs_of(params, s)[k], <<DictRows(s)[i]>>) = 1
RejectsEveryDictRow(s) == \A i \in DOMAIN DictRows(s) : ~KeepsDictRow(s, i)

\* C11: the stripe is skipped by the dictionary stage exactly when some qualifying
\* slot's conjuncts reject every dictionary value and the trailing null row; when
\* the stripe is not skipped, every qualifying slot has a filter in the cache with
\* a 1 exactly at the dictionary rows its conjuncts keep
C11_DictSkipIffAllRejected ==
    dict_skip # NoRet =>
        /\ (dict_skip = Ret(TRUE)) <=>
               (\E s \in {"A", "B"} : QualifyingSlot(s) /\ RejectsEveryDictRow(s))
        /\ dict_skip = Ret(FALSE) =>
               \A s \in {"A", "B"} : QualifyingSlot(s) =>
                   /\ s \in DOMAIN dict_filter_eval_cache
                   /\ dict_filter_eval_cache[s] =
                          [i \in DOMAIN DictRows(s) |-> IF KeepsDictRow(s, i) THEN 1 ELSE 0]

\* a stripe is kept only because the trailing null row passes: every dictionary
\* value of A is rejected, the cached filter keeps the last row alone
C11_Witness ==
    /\ dict_skip = Ret(FALSE)
    /\ QualifyingSlot("A")
    /\ Len(sdicts["A"]) > 0
    /\ \A i \in 1..Len(sdicts["A"]) : ~KeepsDictRow("A", i)
    /\ "A" \in DOMAIN dict_filter_eval_cache
    /\ dict_filter_eval_cache["A"][Len(sdicts["A"]) + 1] = 1

\* ================================================================ stage 5
\* ColumnBuilder<Type> of be/src/column/column_builder.h: a builder b is the record
\* [column, null_column, has_null]
\* number of append calls on one builder
MaxAppends == 3
DATUM_NULL == 1
DATUM_NOT_NULL == 0
\* what append_default appends to the data column
DefaultValue == 0

\* ColumnBuilder::append(value)
append(b, value) ==
    [b EXCEPT !.null_column = Append(@, DATUM_NOT_NULL), !.column = Append(@, value)]

\* ColumnBuilder::append(value, is_null)
append_is_null(b, value, is_null) ==
    [b EXCEPT !.has_null = b.has_null \/ is_null,
              !.null_column = Append(@, IF is_null THEN DATUM_NULL ELSE DATUM_NOT_NULL),
              !.column = Append(@, value)]

\* a slip append_null could have: the bitmap byte appended is DATUM_NOT_NULL
append_null_not_null(b) ==
    [b EXCEPT !.has_null = TRUE, !.null_column = Append(@, DATUM_NOT_NULL),
              !.column = Append(@, DefaultValue)]

\* ColumnBuilder::append_null
append_null(b) ==
    [b EXCEPT !.has_null = TRUE, !.null_column = Append(@, DATUM_NULL),
              !.column = Append(@, DefaultValue)]

\* the columns build can return; size is the logical row count
ConstNullColumn(n) == [kind |-> "const_null", data |-> <<>>, nulls |-> <<>>, size |-> n]
ConstColumn(data, n) == [kind |-> "const", data |-> data, nulls |-> <<>>, size |-> n]
NullableColumn(data, nulls, n) == [kind |-> "nullable", data |-> data, nulls |-> nulls, size |-> n]
DataColumn(data, n) == [kind |-> "data", data |-> data, nulls |-> <<>>, size |-> n]

\* a slip build could have: _has_null is tested before is_const
build_nullable_first(data, size, nulls, hn, is_const) ==
    IF hn THEN NullableColumn(data, nulls, size)
    ELSE IF is_const THEN ConstColumn(data, size)
    ELSE DataColumn(data, size)

\* ColumnBuilder::build on the data column, its size(), the null column and _has_null
build(data, size, nulls, hn, is_const) ==
    IF is_const /\ hn THEN ConstNullColumn(size)
    ELSE IF is_const THEN ConstColumn(data, size)
    ELSE IF hn THEN NullableColumn(data, nulls, size)
    ELSE DataColumn(data, size)

Builder == [column |-> column, null_column |-> null_column, has_null |-> has_null]

\* ColumnBuilder(chunk_size): an empty builder; nothing else is in use
InitColumnBuilder ==
    /\ InitFilterIdle
    /\ InitMinMaxIdle
    /\ InitScanIdle
    /\ InitRestIdle
    /\ pc = "builder"

SetBuilder(b, is_null) ==
    /\ column' = b.column
    /\ null_column' = b.null_column
    /\ has_null' = b.has_null
    /\ appended' = Append(appended, is_null)
    /\ UNCHANGED <<rangeVars, minMaxVars, scanVars, dict_skip, bytes, offsets, built, protocol,
                   streamVars, pc>>

BuilderAppend ==
    /\ pc = "builder"
    /\ Len(appended) < MaxAppends
    /\ \E value \in Vals : SetBuilder(append(Builder, value), FALSE)

BuilderAppendIsNull ==
    /\ pc = "builder"
    /\ Len(appended) < MaxAppends
    /\ \E value \in Vals, is_null \in BOOLEAN :
           SetBuilder(append_is_null(Builder, value, is_null), is_null)

BuilderAppendNull ==
    /\ pc = "builder"
    /\ Len(appended) < MaxAppends
    /\ SetBuilder(append_null(Builder), TRUE)

\* build ends the builder's use
BuilderBuild ==
    /\ pc = "builder"
    /\ \E is_const \in BOOLEAN :
           built' = Ret([is_const |-> is_const,
                         col |-> build(column, Len(column), null_column, has_null, is_const)])
    /\ pc' = "built"
    /\ UNCHANGED <<rangeVars, minMaxVars, scanVars, dict_skip, column, null_column, has_null,
                   bytes, offsets, appended, protocol, streamVars>>

NextColumnBuilder == BuilderAppend \/ BuilderAppendIsNull \/ BuilderAppendNull \/ BuilderBuild

SpecColumnBuilder == InitColumnBuilder /\ [][NextColumnBuilder]_vars

\* ---- claims of stage 5
\* build was called with this is_const
Built(is_const) == built # NoRet /\ built[1].is_const = is_const
\* some call so far appended a null
AnyNullAppended == \E i \in DOMAIN appended : appended[i]

\* C13: the column build(false) returns has as many rows as there were append calls,
\* and row i is null in it exactly when call i appended a null: a nullable column's
\* bitmap has a 1 exactly at those calls, a bare data column is returned only when
\* no call appended a null
C13_BuildFalseMatchesAppends ==
    Built(FALSE) =>
        LET col == built[1].col
        IN /\ col.size = Len(appended)
           /\ Len(col.data) = Len(appended)
           /\ col.kind \in {"nullable", "data"}
           /\ col.kind = "nullable" =>
                  col.nulls = [i \in DOMAIN appended |-> IF appended[i] THEN 1 ELSE 0]
           /\ col.kind = "data" => ~AnyNullAppended

\* build(false) after calls of all three kinds, nulls and non-nulls among them
C13_Witness ==
    /\ Built(FALSE)
    /\ Len(appended) = MaxAppends
    /\ built[1].col.kind = "nullable"
    /\ \E i, j \in DOMAIN appended : appended[i] /\ ~appended[j]

\* C14: build(true) on a builder to which a null was appended returns a constant
\* null column with as many logical rows as the builder has
C14_BuildConstNull ==
    (Built(TRUE) /\ AnyNullAppended) =>
        /\ built[1].col.kind = "const_null"
        /\ built[1].col.size = Len(appended)

\* build(true) when the null was appended first and non-null values after it
C14_Witness ==
    /\ Built(TRUE)
    /\ Len(appended) = MaxAppends
    /\ appended[1]
    /\ \A i \in 2..MaxAppends : ~appended[i]
    /\ built[1].col.kind = "const_null"

\* ================================================================ stage 6
\* NullableBinaryColumnBuilder of be/src/column/column_builder.h: a builder nb is the
\* record [bytes, offsets, null_column, has_null]; row i of the code is entry i + 1 of
\* null_column, its end offsets[i + 1] of the code is entry i + 2 of offsets
\* rows a resize asks for (its argument num_rows), and bytes the byte buffer holds, at most
MaxBinaryRows == 2
MaxBytes == 2
ByteVals == {0, 1}
ByteStrings == SeqsUpTo(ByteVals, MaxBytes)
\* what an entry of offsets that make_room left uninitialized can read as
GarbageOffsets == {0, MaxBytes + 1}

BinaryBuilder ==
    [bytes |-> bytes, offsets |-> offsets, null_column |-> null_column, has_null |-> has_null]
\* number of rows the builder was sized for
NumRows(nb) == Len(nb.offsets) - 1

\* NullableBinaryColumnBuilder::resize: reserve leaves bytes as they are; make_room
\* keeps the entries offsets has and leaves new ones uninitialized (garbage);
\* std::vector::resize keeps the null bytes that are there and zero-fills new ones
resize(nb, n_rows, garbage) ==
    [nb EXCEPT !.offsets = [i \in 1..(n_rows + 1) |->
                               IF i = 1 THEN 0
                               ELSE IF i <= Len(nb.offsets) THEN nb.offsets[i]
                               ELSE garbage[i - Len(nb.offsets)]],
               !.null_column = [i \in 1..n_rows |->
                                   IF i <= Len(nb.null_column) THEN nb.null_column[i] ELSE 0]]

\* a slip set_null could have: _has_null is left as it is
set_null_unflagged(nb, i) ==
    [nb EXCEPT !.offsets[i + 2] = Len(nb.bytes), !.null_column[i + 1] = 1]

\* NullableBinaryColumnBuilder::set_null
set_null(nb, i) ==
    [nb EXCEPT !.has_null = TRUE, !.offsets[i + 2] = Len(nb.bytes), !.null_column[i + 1] = 1]

\* NullableBinaryColumnBuilder::append_empty
append_empty(nb, i) == [nb EXCEPT !.offsets[i + 2] = Len(nb.bytes)]

\* NullableBinaryColumnBuilder::append(begin, end, i)
binary_append(nb, str, i) ==
    [nb EXCEPT !.bytes = nb.bytes \o str, !.offsets[i + 2] = Len(nb.bytes) + Len(str)]

\* NullableBinaryColumnBuilder::append_partial
append_partial(nb, str) == [nb EXCEPT !.bytes = nb.bytes \o str]

\* a slip append_complete could have: offsets[i] is written for offsets[i + 1]
append_complete_at_i(nb, i) == [nb EXCEPT !.offsets[i + 1] = Len(nb.bytes)]

\* NullableBinaryColumnBuilder::append_complete
append_complete(nb, i) == [nb EXCEPT !.offsets[i + 2] = Len(nb.bytes)]

\* a slip rewind could have: the buffer is cut to n bytes
rewind_to(nb, n) == [nb EXCEPT !.bytes = SubSeq(nb.bytes, 1, n)]

\* NullableBinaryColumnBuilder::rewind
rewind(nb, n) == [nb EXCEPT !.bytes = SubSeq(nb.bytes, 1, Len(nb.bytes) - n)]

\* a slip set_has_null could have: the negation is stored
set_has_null_negated(nb, v) == [nb EXCEPT !.has_null = ~v]

\* NullableBinaryColumnBuilder::set_has_null
set_has_null(nb, v) == [nb EXCEPT !.has_null = v]

\* a store through the reference get_null_data returns: nulls[i] = v
get_null_data(nb, i, v) == [nb EXCEPT !.null_column[i + 1] = v]

\* NullableBinaryColumnBuilder(): an empty builder (a binary column's offsets start
\* as the single entry 0); nothing else is in use
InitBinaryBuilder ==
    /\ InitFilterIdle
    /\ InitMinMaxIdle
    /\ InitScanIdle
    /\ InitRestIdle
    /\ pc = "binary_builder"

SetBinaryBuilder(nb, pr) ==
    /\ bytes' = nb.bytes
    /\ offsets' = nb.offsets
    /\ null_column' = nb.null_column
    /\ has_null' = nb.has_null
    /\ protocol' = pr
    /\ UNCHANGED <<rangeVars, minMaxVars, scanVars, dict_skip, column, appended, built,
                   streamVars, pc>>

\* the record of calls after the commit of row i by an operation of this kind: the
\* commits stay in order when row i is the next row and, for the kinds other than
\* "complete", no partial bytes are pending
Committed(kind, i) ==
    LET ok == /\ protocol.in_order
              /\ i = Len(protocol.commits)
              /\ (protocol.partial => kind = "complete")
    IN [protocol EXCEPT !.in_order = ok,
                        !.commits = IF ok THEN Append(@, kind \in {"null", "empty"}) ELSE <<>>,
                        !.partial = FALSE, !.last_op = "other", !.undo = NoRet,
                        !.marked = @ \/ (kind = "null")]

BinaryResize ==
    /\ pc = "binary_builder"
    /\ \E n_rows \in 0..MaxBinaryRows :
       \E garbage \in [1..(n_rows + 1 - Len(offsets)) -> GarbageOffsets] :
           SetBinaryBuilder(resize(BinaryBuilder, n_rows, garbage),
               [protocol EXCEPT !.bytes_at_resize = Len(bytes),
                                !.commits = <<>>, !.in_order = TRUE, !.partial = FALSE,
                                !.last_op = "resize", !.undo = NoRet])

BinarySetNull ==
    /\ pc = "binary_builder"
    /\ \E i \in 0..(NumRows(BinaryBuilder) - 1) :
           SetBinaryBuilder(set_null(BinaryBuilder, i), Committed("null", i))

BinaryAppendEmpty ==
    /\ pc = "binary_builder"
    /\ \E i \in 0..(NumRows(BinaryBuilder) - 1) :
           SetBinaryBuilder(append_empty(BinaryBuilder, i), Committed("empty", i))

BinaryAppend ==
    /\ pc = "binary_builder"
    /\ \E i \in 0..(NumRows(BinaryBuilder) - 1), str \in ByteStrings :
           /\ Len(bytes) + Len(str) <= MaxBytes
           /\ SetBinaryBuilder(binary_append(BinaryBuilder, str, i), Committed("append", i))

BinaryAppendPartial ==
    /\ pc = "binary_builder"
    /\ \E str \in ByteStrings :
           /\ Len(bytes) + Len(str) <= MaxBytes
           /\ SetBinaryBuilder(append_partial(BinaryBuilder, str),
                  [protocol EXCEPT !.partial = TRUE,
                                   !.last_op = "other",
                                   !.undo = Ret([nb |-> BinaryBuilder, k |-> Len(str),
                                                 rewound |-> FALSE])])

BinaryAppendComplete ==
    /\ pc = "binary_builder"
    /\ \E i \in 0..(NumRows(BinaryBuilder) - 1) :
           SetBinaryBuilder(append_complete(BinaryBuilder, i), Committed("complete", i))

\* rewind(n) with n up to the bytes the buffer holds; a rewind that takes back the
\* bytes of the append_partial just before it is recorded as its undo
BinaryRewind ==
    /\ pc = "binary_builder"
    /\ \E n \in 0..Len(bytes) :
           LET undoes == /\ protocol.undo # NoRet
                         /\ ~protocol.undo[1].rewound
                         /\ protocol.undo[1].k = n
           IN SetBinaryBuilder(rewind(BinaryBuilder, n),
                  [protocol EXCEPT !.in_order = FALSE, !.commits = <<>>, !.partial = FALSE,
                                   !.last_op = "other",
                                   !.undo = IF undoes
                                            THEN Ret([protocol.undo[1] EXCEPT !.rewound = TRUE])
                                            ELSE NoRet])

BinarySetHasNull ==
    /\ pc = "binary_builder"
    /\ \E v \in BOOLEAN :
           SetBinaryBuilder(set_has_null(BinaryBuilder, v),
               [protocol EXCEPT !.last_op = IF v THEN "other" ELSE "set_has_null_false",
                                !.undo = NoRet, !.flag_by_caller = TRUE])

\* the caller marks or unmarks row i in the container get_null_data hands out
BinaryGetNullData ==
    /\ pc = "binary_builder"
    /\ \E i \in 0..(Len(null_column) - 1), v \in {0, 1} :
           SetBinaryBuilder(get_null_data(BinaryBuilder, i, v),
               [protocol EXCEPT !.last_op = "other", !.undo = NoRet,
                                !.marked = @ \/ (v = 1), !.flag_by_caller = TRUE])

\* ColumnBuilder::build on the binary builder; it ends the builder's use
BinaryBuild ==
    /\ pc = "binary_builder"
    /\ \E is_const \in BOOLEAN :
           built' = Ret([is_const |-> is_const,
                         col |-> build(<<bytes, offsets>>, Len(offsets) - 1, null_column,
                                       has_null, is_const)])
    /\ pc' = "built"
    /\ UNCHANGED <<rangeVars, minMaxVars, scanVars, dict_skip, column, null_column, has_null,
                   bytes, offsets, appended, protocol, streamVars>>

NextBinaryBuilder ==
    \/ BinaryResize \/ BinarySetNull \/ BinaryAppendEmpty \/ BinaryAppend
    \/ BinaryAppendPartial \/ BinaryAppendComplete \/ BinaryRewind
    \/ BinarySetHasNull \/ BinaryGetNullData \/ BinaryBuild

SpecBinaryBuilder == InitBinaryBuilder /\ [][NextBinaryBuilder]_vars

\* ---- claims of stage 6
\* the column build(false) returned
BuiltFalseKind == built[1].col.kind
\* a row is marked null in the bitmap
SomeRowMarked == \E i \in DOMAIN null_column : null_column[i] = 1

\* C15 as stated: build(false) returns a nullable column if and only if a row was
\* marked null while the builder was filled, and a bare data column never holds a
\* row that is marked null
C15_NullableIffMarked ==
    Built(FALSE) =>
        /\ (BuiltFalseKind = "nullable") <=> protocol.marked
        /\ BuiltFalseKind = "data" => ~SomeRowMarked

\* C15 as the code has it: build(false) returns a nullable column if and only if
\* _has_null is set; on a builder whose flag and null bytes only the builder's own
\* operations wrote, that is if and only if a row was marked null, and a bare data
\* column holds no row that is marked null
C15_NullableIffFlag ==
    Built(FALSE) =>
        /\ BuiltFalseKind \in {"nullable", "data"}
        /\ (BuiltFalseKind = "nullable") <=> has_null
        /\ ~protocol.flag_by_caller =>
               /\ (BuiltFalseKind = "nullable") <=> protocol.marked
               /\ BuiltFalseKind = "data" => ~SomeRowMarked

\* build(false) of a builder sized for two rows, one of them set null, with no
\* call of set_has_null and no store into the null bytes
C15_Witness ==
    /\ Built(FALSE)
    /\ ~protocol.flag_by_caller
    /\ protocol.marked
    /\ BuiltFalseKind = "nullable"
    /\ \E i, j \in DOMAIN null_column : null_column[i] = 1 /\ null_column[j] = 0

\* C16 as stated: once _has_null is true it stays true under every operation
C16_HasNullMonotonic ==
    [][has_null => has_null']_vars

\* C16 as the code has it: once _has_null is true it stays true under every
\* operation other than set_has_null(false)
C16_HasNullMonotonicButSetter ==
    [][(has_null /\ protocol'.last_op # "set_has_null_false") => has_null']_vars

\* the flag was raised by set_null and is still up after a later resize
C16_Witness ==
    /\ pc = "binary_builder"
    /\ has_null
    /\ protocol.marked
    /\ ~protocol.flag_by_caller
    /\ protocol.last_op = "resize"

\* resize was called on a builder that held no bytes, and since then every row was
\* committed once, row by row in order, by set_null, append_empty, append, or
\* append_partial calls ended by append_complete
AllRowsCommitted ==
    /\ pc = "binary_builder"
    /\ protocol.in_order
    /\ protocol.bytes_at_resize = 0
    /\ ~protocol.partial
    /\ Len(protocol.commits) = Len(offsets) - 1

RewoundPartial == protocol.undo # NoRet /\ protocol.undo[1].rewound
SameBuffer(a, b) == a.bytes = b.bytes /\ a.offsets = b.offsets

\* C18: after append_partial of k bytes and rewind(k) the byte buffer and the
\* offsets are those from before the append_partial, and every further append or
\* commit leaves them as it would have left them without the two calls
C18_RewindUndoesPartial ==
    RewoundPartial =>
        LET before == protocol.undo[1].nb
            now == BinaryBuilder
            rows == 0..(NumRows(now) - 1)
        IN /\ SameBuffer(now, before)
           /\ \A str \in ByteStrings :
                  /\ SameBuffer(append_partial(now, str), append_partial(before, str))
                  /\ \A i \in rows :
                         SameBuffer(binary_append(now, str, i), binary_append(before, str, i))
           /\ \A i \in rows :
                  /\ SameBuffer(append_complete(now, i), append_complete(before, i))
                  /\ SameBuffer(append_empty(now, i), append_empty(before, i))
                  /\ SameBuffer(set_null(now, i), set_null(before, i))

\* bytes were taken back from a buffer that held bytes before them
C18_Witness ==
    /\ RewoundPartial
    /\ protocol.undo[1].k > 0
    /\ protocol.undo[1].nb.bytes # <<>>
    /\ NumRows(BinaryBuilder) > 0

\* C19: right after resize the null bitmap has one entry per row and every entry
\* is 0
C19_ResizeZeroesBitmap ==
    protocol.last_op = "resize" =>
        /\ Len(null_column) = Len(offsets) - 1
        /\ \A i \in DOMAIN null_column : null_column[i] = 0

\* ================================================================ stage 7
\* ORCHdfsFileStream of hdfs_scanner_orc.cpp: a stream st is the record
\* [cache_buffer, cache_offset, io_count, bytes_read]
\* _length: the file holds the bytes at positions 0..FileLength - 1
FileLength == 3
\* config::orc_file_cache_max_size
CacheMaxSize == 2
\* the length a caller asks for is at most this
MaxReadLength == 3
\* physical reads of one stream, at most
MaxIoCount == 2
\* the byte the file holds at position i (a zero-filled byte is 0)
File(i) == i + 1
FileBytes(offset, length) == [k \in 1..length |-> File(offset + k - 1)]

Stream ==
    [cache_buffer |-> cache_buffer, cache_offset |-> cache_offset,
     io_count |-> io_count, bytes_read |-> bytes_read]

\* ORCHdfsFileStream::canUseCacheBuffer
canUseCacheBuffer(st, offset, length) ==
    /\ Len(st.cache_buffer) # 0
    /\ offset >= st.cache_offset
    /\ offset + length <= st.cache_offset + Len(st.cache_buffer)

\* RandomAccessFile::read_at_fully: all of [offset, offset + length) or an error; ok
\* is FALSE when the file system fails the read
read_at_fully_ok(offset, length, ok) == ok /\ offset + length <= FileLength

\* ORCHdfsFileStream::doRead into a buffer that holds dest; buf_null: buf == nullptr;
\* written: the bytes a failed read_at_fully stored before it failed.  The result is
\* the stream, how the call ended, what the buffer holds and how many times
\* read_at_fully was called
doRead(st, buf_null, dest, length, offset, ok, written) ==
    LET counted == [st EXCEPT !.io_count = @ + 1]
    IN IF buf_null
       THEN [st |-> counted, outcome |-> "ParseError", data |-> dest, reads |-> 0]
       ELSE IF ~read_at_fully_ok(offset, length, ok)
       THEN [st |-> counted, outcome |-> "ParseError",
             data |-> [k \in 1..length |-> IF k <= written THEN File(offset + k - 1) ELSE dest[k]],
             reads |-> 1]
       ELSE [st |-> [counted EXCEPT !.bytes_read = @ + length], outcome |-> "ok",
             data |-> FileBytes(offset, length), reads |-> 1]

\* a slip read could have: the copy from the cache counts as an I/O of length bytes
read_cache_counted(st, buf_null, length, offset, ok, written, ub) ==
    IF canUseCacheBuffer(st, offset, length)
    THEN LET idx == offset - st.cache_offset
         IN [st |-> [st EXCEPT !.io_count = @ + 1, !.bytes_read = @ + length],
             path |-> "cache",
             outcome |-> IF buf_null THEN ub ELSE "ok",
             data |-> SubSeq(st.cache_buffer, idx + 1, idx + length)]
    ELSE LET r == doRead(st, buf_null, [k \in 1..length |-> 0], length, offset, ok, written)
         IN [st |-> r.st, path |-> "direct", outcome |-> r.outcome, data |-> r.data]

\* ORCHdfsFileStream::read.  memcpy to a null buf is undefined: ub is what comes of
\* it, the process is killed or (when no byte is to be copied) the call returns
read(st, buf_null, length, offset, ok, written, ub) ==
    IF canUseCacheBuffer(st, offset, length)
    THEN LET idx == offset - st.cache_offset
         IN [st |-> st, path |-> "cache",
             outcome |-> IF buf_null THEN ub ELSE "ok",
             data |-> SubSeq(st.cache_buffer, idx + 1, idx + length)]
    ELSE LET r == doRead(st, buf_null, [k \in 1..length |-> 0], length, offset, ok, written)
         IN [st |-> r.st, path |-> "direct", outcome |-> r.outcome, data |-> r.data]

\* std::vector<char>::resize: the bytes that are there stay, new ones are 0
vector_resize(v, n) == [k \in 1..n |-> IF k <= Len(v) THEN v[k] ELSE 0]

\* the length prepareCache reads: for a whole stripe min(_length - offset,
\* cache_max_size), the subtraction being one of unsigned 64-bit numbers
cache_length(scope, offset, length) ==
    IF scope = "READ_FULL_STRIPE"
    THEN (IF offset > FileLength THEN CacheMaxSize
          ELSE Min({FileLength - offset, CacheMaxSize}))
    ELSE length

\* ORCHdfsFileStream::prepareCache; data_null: _cache_buffer.data() == nullptr, which
\* an empty vector may return.  The stream, how the call ended and how many times
\* read_at_fully was called
prepareCache(st, scope, offset, length, ok, written, data_null) ==
    IF length > CacheMaxSize THEN [st |-> st, outcome |-> "ok", reads |-> 0]
    ELSE IF canUseCacheBuffer(st, offset, length) THEN [st |-> st, outcome |-> "ok", reads |-> 0]
    ELSE LET len == cache_length(scope, offset, length)
             resized == vector_resize(st.cache_buffer, len)
             r == doRead([st EXCEPT !.cache_buffer = resized, !.cache_offset = offset],
                         data_null /\ len = 0, resized, len, offset, ok, written)
         IN [st |-> [r.st EXCEPT !.cache_buffer = r.data],
             outcome |-> r.outcome, reads |-> r.reads]

\* the bytes a read_at_fully that fails can have stored before it failed: none, or
\* the first
FailedWrites(offset, length, ok) ==
    IF read_at_fully_ok(offset, length, ok) \/ length = 0 \/ offset >= FileLength
    THEN {0} ELSE {0, 1}

PrepareCacheScopes == {"READ_FULL_STRIPE", "READ_ROW_GROUP_INDEX"}

\* ORCHdfsFileStream(file, length, stats): no cache window, the statistics at zero
InitStream ==
    /\ InitFilterIdle
    /\ InitMinMaxIdle
    /\ InitScanIdle
    /\ InitRestIdle
    /\ pc = "stream"

SetStream(st) ==
    /\ cache_buffer' = st.cache_buffer
    /\ cache_offset' = st.cache_offset
    /\ io_count' = st.io_count
    /\ bytes_read' = st.bytes_read

StreamPrepareCache ==
    /\ pc = "stream"
    /\ io_count < MaxIoCount
    /\ \E scope \in PrepareCacheScopes, offset \in 0..FileLength, length \in 0..MaxReadLength,
          ok \in BOOLEAN :
       \E written \in FailedWrites(offset, cache_length(scope, offset, length), ok),
          data_null \in (IF cache_length(scope, offset, length) = 0 THEN BOOLEAN ELSE {FALSE}) :
           LET r == prepareCache(Stream, scope, offset, length, ok, written, data_null)
           IN /\ SetStream(r.st)
              /\ last_prepare' = Ret([scope |-> scope, offset |-> offset, length |-> length,
                                      before |-> Stream, outcome |-> r.outcome,
                                      reads |-> r.reads])
    /\ last_read' = NoRet
    /\ UNCHANGED <<rangeVars, minMaxVars, scanVars, dict_skip, builderVars, pc>>

\* read(buf, length, offset); a kill by the undefined memcpy ends the stream's use
StreamRead ==
    /\ pc = "stream"
    /\ io_count < MaxIoCount
    /\ \E buf_null \in BOOLEAN, offset \in 0..FileLength, length \in 0..MaxReadLength,
          ok \in BOOLEAN :
       \E written \in FailedWrites(offset, length, ok),
          ub \in (IF length = 0 THEN {"ok", "killed"} ELSE {"killed"}) :
           LET r == read(Stream, buf_null, length, offset, ok, written, ub)
           IN /\ SetStream(r.st)
              /\ last_read' = Ret([length |-> length, offset |-> offset, buf_null |-> buf_null,
                                   path |-> r.path, outcome |-> r.outcome, data |-> r.data,
                                   io_count |-> io_count, bytes_read |-> bytes_read])
              /\ pc' = IF r.outcome = "killed" THEN "killed" ELSE "stream"
    /\ last_prepare' = NoRet
    /\ UNCHANGED <<rangeVars, minMaxVars, scanVars, dict_skip, builderVars>>

NextStream == StreamPrepareCache \/ StreamRead

SpecStream == InitStream /\ [][NextStream]_vars

\* ---- claims of stage 7
\* the last call was a read that returned normally, by this path
ReadOk(path) ==
    /\ last_read # NoRet
    /\ last_read[1].outcome = "ok"
    /\ last_read[1].path = path

\* C20 as stated: every read that returns normally, from the cache window or by a
\* physical read, has grown the I/O count by one and the byte count by length
C20_EveryReadCounted ==
    (ReadOk("cache") \/ ReadOk("direct")) =>
        /\ io_count = last_read[1].io_count + 1
        /\ bytes_read = last_read[1].bytes_read + last_read[1].length

\* C20 as the code has it: a read served by a physical read has grown the I/O count
\* by one and the byte count by length; a read served from the cache window has
\* left both as they were
C20_PhysicalReadCounted ==
    /\ ReadOk("direct") =>
           /\ io_count = last_read[1].io_count + 1
           /\ bytes_read = last_read[1].bytes_read + last_read[1].length
    /\ ReadOk("cache") =>
           /\ io_count = last_read[1].io_count
           /\ bytes_read = last_read[1].bytes_read

\* a read of some bytes was served from a window that prepareCache had filled
C20_Witness ==
    /\ ReadOk("cache")
    /\ last_read[1].length > 0
    /\ io_count = 1
    /\ bytes_read = Len(cache_buffer)

\* the last call was a read of these arguments
ReadCalled == last_read # NoRet

\* the last call was a read whose physical read failed: it went to the file with a
\* buffer to fill and did not return normally
PhysicalReadFailed ==
    /\ ReadCalled
    /\ last_read[1].path = "direct"
    /\ ~last_read[1].buf_null
    /\ last_read[1].outcome # "ok"

\* C21: a read with a null destination buffer has raised the decode-layer error,
\* whether or not the requested range lay inside the cache window, and a read whose
\* physical read failed has raised the same error and left the byte count as it was
C21_NullBufferAlwaysThrows ==
    /\ (ReadCalled /\ last_read[1].buf_null) => last_read[1].outcome = "ParseError"
    /\ PhysicalReadFailed =>
           /\ last_read[1].outcome = "ParseError"
           /\ bytes_read = last_read[1].bytes_read

\* ---- claims of stage 4, continued
\* the cached filter of slot s is the one computed from the dictionary the open
\* stripe has for s
FilterOfOpenStripe(s) ==
    /\ s \in DOMAIN sdicts
    /\ dict_filter_eval_cache[s] = eval_conjuncts_dict(conjunct_ctxs_of(params, s), sdicts[s])

\* C22: once the dictionary stage has run for a stripe, whether the stripe carries
\* string dictionaries or none, the cache holds only filters computed from that
\* stripe's own dictionaries: every slot that is_slot_evaluated answers yes for has
\* a dictionary in the stripe and its cached filter is the one of that dictionary
C22_CacheOfOpenStripeOnly ==
    dict_skip # NoRet =>
        \A s \in {"A", "B"} :
            is_slot_evaluated(dict_filter_eval_cache, s) => FilterOfOpenStripe(s)

\* ---- claims of stage 3, continued
\* a turn of the read loop has run for the position in batch
StepDone == mask_use # NoRet

\* C23: a mask that a turn of the read loop applied, to the active chunk or to the
\* lazily decoded columns, was rebuilt in that turn and has the length of what it
\* was built for: the dictionary mask that of the decoded batch, the row-selection
\* mask that of the batch after dictionary filtering
C23_AppliedMasksRebuilt ==
    StepDone =>
        /\ mask_use[1].dict_applied =>
               /\ mask_use[1].dict_rebuilt
               /\ mask_use[1].dict_size = mask_use[1].read_num_values
        /\ mask_use[1].chunk_applied =>
               /\ mask_use[1].chunk_rebuilt
               /\ mask_use[1].chunk_size = mask_use[1].cvb_size

\* the second turn of one call applied both masks to the lazy columns, the masks
\* of the first turn being those of a position that kept no row
C23_Witness ==
    /\ StepDone /\ Returned("OK") /\ lazy_read
    /\ turns >= 2
    /\ mask_use[1].dict_applied /\ mask_use[1].chunk_applied
    /\ mask_use[1].cvb_size < mask_use[1].read_num_values

\* the read step merged the lazy columns into the active chunk and returned it
LazyMerged == Returned("OK") /\ lazy_read

\* C28: when a read step has merged the lazy columns into the active chunk, every
\* column of the emitted chunk has the row count of the rows the step kept, and row
\* k of the lazy column B and of the active column A both come from the k-th kept
\* row of the decoded position
C28_LazyRowsAligned ==
    LazyMerged =>
        /\ \A i \in DOMAIN chunk.columns : Len(chunk.columns[i]) = Len(survivors)
        /\ \A s \in Range(lazy_load_ctx.lazy_load_slots), k \in 1..Len(survivors) :
               get_column_by_slot_id(chunk, s)[k] = RowId(survivors[k])
        /\ \A s \in Range(lazy_load_ctx.active_load_slots), k \in 1..Len(survivors) :
               get_column_by_slot_id(chunk, s)[k] = batch[survivors[k]]

\* the dictionary filter dropped the first row of the position, the lazy columns
\* were read for both rows and cut to the second
C28_Witness ==
    /\ LazyMerged
    /\ Len(batch) = 2 /\ survivors = <<2>>
    /\ mask_use[1].dict_applied /\ mask_use[1].cvb_size = 1
    /\ get_column_by_slot_id(chunk, "B") = <<RowId(2)>>

\* do_open returned OK after building the decoder
Opened == orc_reader /\ open_status = "OK"

\* the requested slots the file has
SlotsInFile == {it \in Range(materialize_slots) : it \in known_column_names}

\* the position of slot it in list slots of the lazy-load context, with the index
\* recorded for it
IndexIn(slots, indices, it) ==
    {indices[i] : i \in {j \in DOMAIN slots : slots[j] = it}}

\* every requested slot of the file is in exactly one of the two sets, once, and
\* the index recorded with it is its position in the source slot list, counted
\* from 0; the two index lists are disjoint and together are 0..n-1
PartitionedByPosition ==
    LET ctx == lazy_load_ctx
        active == Range(ctx.active_load_slots)
        lazy == Range(ctx.lazy_load_slots)
        n == Len(src_slot_descriptors)
    IN /\ active \cup lazy = SlotsInFile
       /\ active \cap lazy = {}
       /\ Len(ctx.active_load_slots) + Len(ctx.lazy_load_slots) = n
       /\ Len(ctx.active_load_indices) = Len(ctx.active_load_slots)
       /\ Len(ctx.lazy_load_indices) = Len(ctx.lazy_load_slots)
       /\ Range(ctx.active_load_indices) \cap Range(ctx.lazy_load_indices) = {}
       /\ Range(ctx.active_load_indices) \cup Range(ctx.lazy_load_indices) = 0..(n - 1)
       /\ \A i \in 1..n :
              IndexIn(ctx.active_load_slots, ctx.active_load_indices, src_slot_descriptors[i])
              \cup IndexIn(ctx.lazy_load_slots, ctx.lazy_load_indices, src_slot_descriptors[i])
              = {i - 1}

\* C25 as stated: after open, in every later state, the slots of the file are
\* partitioned by position, and a slot is active exactly when it has a predicate
C25_ActiveIffHasPredicate ==
    Opened =>
        /\ PartitionedByPosition
        /\ \A it \in SlotsInFile :
               it \in Range(lazy_load_ctx.active_load_slots)
                   <=> it \in conjunct_ctxs_by_slot(params)

\* C25 as the code has it: after open, in every later state, the slots of the file
\* are partitioned by position, and a slot is active exactly when it has a
\* predicate or no slot of the scan has one; get_next leaves the sets as they are
C25_ActiveIffHasPredicateOrNoneHas ==
    Opened =>
        /\ PartitionedByPosition
        /\ \A it \in SlotsInFile :
               it \in Range(lazy_load_ctx.active_load_slots)
                   <=> (it \in conjunct_ctxs_by_slot(params)
                        \/ conjunct_ctxs_by_slot(params) = {})

\* a scan with a predicate on A alone has emitted a chunk: A is active at index 0,
\* B, the third requested slot, is lazy at index 1
C25_Witness ==
    /\ Opened /\ Returned("OK") /\ lazy_read
    /\ lazy_load_ctx.active_load_slots = <<"A">> /\ lazy_load_ctx.active_load_indices = <<0>>
    /\ lazy_load_ctx.lazy_load_slots = <<"B">> /\ lazy_load_ctx.lazy_load_indices = <<1>>

\* ---- claims of stage 7, continued
\* the last call was a prepareCache
PrepareCalled == last_prepare # NoRet

\* the last prepareCache call had nothing to do: the length is above the ceiling or
\* the range lay inside the window there was
PrepareNothingToDo ==
    \/ last_prepare[1].length > CacheMaxSize
    \/ canUseCacheBuffer(last_prepare[1].before, last_prepare[1].offset, last_prepare[1].length)

\* the size of the window the last prepareCache call is to install
PreparedSize ==
    IF last_prepare[1].scope = "READ_FULL_STRIPE"
    THEN Min({FileLength - last_prepare[1].offset, CacheMaxSize})
    ELSE last_prepare[1].length

\* C24: a prepareCache whose length exceeds the ceiling or whose range lies inside
\* the window leaves window and statistics as they were; any other performs one
\* physical read, counted as one I/O, and leaves a window that starts at offset
\* and has the size asked for (for a whole stripe min(file length - offset,
\* ceiling)); the window is never larger than the ceiling
C24_PrepareCacheFrame ==
    /\ Len(cache_buffer) <= CacheMaxSize
    /\ (PrepareCalled /\ PrepareNothingToDo) =>
           /\ Stream = last_prepare[1].before
           /\ last_prepare[1].reads = 0
    /\ (PrepareCalled /\ ~PrepareNothingToDo) =>
           /\ last_prepare[1].reads = 1
           /\ io_count = last_prepare[1].before.io_count + 1
           /\ cache_offset = last_prepare[1].offset
           /\ Len(cache_buffer) = PreparedSize

\* C27: every read that returns normally, from the cache window or by a physical
\* read, has delivered the file's bytes at [offset, offset + length)
C27_CacheTransparent ==
    (ReadOk("cache") \/ ReadOk("direct")) =>
        last_read[1].data = FileBytes(last_read[1].offset, last_read[1].length)

\* ================================================================ stage 8
\* the dictionary chunk filterOnPickStringDictionary builds for one slot (lines
\* 296-363): the slot is of type CHAR or VARCHAR, the stripe's dictionary holds
\* entries of spaces and letters, and the slot's conjunct is an equality with a
\* string literal
\* ' '
SPACE == 32
\* the characters of an entry: the space and a letter
CharVals == {SPACE, 97}
CharStrings == SeqsUpTo(CharVals, MaxEntryLength)
SlotTypes == {"TYPE_CHAR", "TYPE_VARCHAR"}

\* orc::StringDictionary of these entries: the entries end to end in dictionaryBlob,
\* entry i at [dictionaryOffset[i], dictionaryOffset[i + 1])
RECURSIVE Concat(_)
Concat(entries) == IF entries = <<>> THEN <<>> ELSE Head(entries) \o Concat(Tail(entries))
StringDictionary(entries) ==
    [dictionaryBlob |-> Concat(entries),
     dictionaryOffset |-> [i \in 1..(Len(entries) + 1) |-> Len(Concat(SubSeq(entries, 1, i - 1)))]]
StringDictionaries == {StringDictionary(e) : e \in SeqsUpTo(CharStrings, MaxDictSize)}

\* a slip: one trailing space is removed
remove_one_trailing_space(s, size) ==
    IF size > 0 /\ s[size] = SPACE THEN size - 1 ELSE size

\* remove_trailing_spaces(s, size); s: the characters from the pointer on
RECURSIVE remove_trailing_spaces(_, _)
remove_trailing_spaces(s, size) ==
    IF size > 0 /\ s[size] = SPACE THEN remove_trailing_spaces(s, size - 1) ELSE size

\* the loop over the dictionary of a CHAR slot (lines 325-335), from entry i on
RECURSIVE char_dict_loop(_, _, _, _, _, _, _)
char_dict_loop(blob, offset_data, i, dict_size, bs, offs, total_size) ==
    IF i >= dict_size
    THEN [bytes |-> bs, offsets |-> [offs EXCEPT ![dict_size + 1] = total_size]]
    ELSE LET s == SubSeq(blob, offset_data[i + 1] + 1, Len(blob))
             old_size == offset_data[i + 2] - offset_data[i + 1]
             new_size == remove_trailing_spaces(s, old_size)
         IN char_dict_loop(blob, offset_data, i + 1, dict_size,
                           bs \o SubSeq(s, 1, new_size),
                           [offs EXCEPT ![i + 1] = total_size],
                           total_size + new_size)

\* lines 299-347: the nullable binary column of the dictionary chunk.  The new
\* column has no bytes and the offsets <<0>>; after the copy the null column gets
\* dict_size zeros and append_default adds the trailing null row, an empty value
dict_value_column(type, dict) ==
    LET offset_size == Len(dict.dictionaryOffset)
        dict_size == offset_size - 1
        resized == vector_resize(<<0>>, offset_size)
        col == IF type = "TYPE_CHAR"
               THEN char_dict_loop(dict.dictionaryBlob, dict.dictionaryOffset, 0, dict_size,
                                   <<>>, resized, 0)
               ELSE [bytes |-> dict.dictionaryBlob,
                     offsets |-> [i \in 1..offset_size |-> dict.dictionaryOffset[i]]]
    IN [bytes |-> col.bytes,
        offsets |-> Append(col.offsets, Len(col.bytes)),
        nulls |-> [i \in 1..dict_size |-> 0] \o <<1>>]

\* row i of a binary column
binary_value(bs, offs, i) == SubSeq(bs, offs[i] + 1, offs[i + 1])

\* ExecNode::eval_conjuncts with the conjunct "slot = literal" on the dictionary
\* chunk: the filter keeps the rows that are not null and equal the literal
eval_conjuncts_eq(literal, col) ==
    [i \in 1..Len(col.nulls) |->
        IF col.nulls[i] = 0 /\ binary_value(col.bytes, col.offsets, i) = literal THEN 1 ELSE 0]

InitCharDict ==
    /\ InitFilterIdle
    /\ InitMinMaxIdle
    /\ InitDictIdle
    /\ InitRestIdle
    /\ \E type \in SlotTypes, literal \in CharStrings :
           params = [slot_type |-> type, literal |-> literal]
    /\ should_skip_file = FALSE
    /\ orc_reader = TRUE
    /\ lazy_load_ctx = NoLazyLoadCtx
    /\ src_slot_descriptors = <<"A">>
    /\ dict_filter = <<>>
    /\ chunk_filter = <<>>
    /\ ck = EmptyChunk
    /\ file_left = 0
    /\ \E dict \in StringDictionaries : sdicts = ("A" :> dict)
    /\ in_stripe = FALSE
    /\ batch = <<>>
    /\ chunk = EmptyChunk
    /\ chunk_before = EmptyChunk
    /\ open_status = "NONE"
    /\ status = "NONE"
    /\ turns = 0
    /\ survivors = <<>>
    /\ lazy_read = FALSE
    /\ mask_use = NoRet
    /\ pc = "char_dict"

\* the body of filterOnPickStringDictionary's loop for slot A: the dictionary chunk
\* is built and the conjunct evaluated on it; the filter goes into the cache
CharDictBuild ==
    /\ pc = "char_dict"
    /\ LET col == dict_value_column(params.slot_type, sdicts["A"])
       IN /\ bytes' = col.bytes
          /\ offsets' = col.offsets
          /\ null_column' = col.nulls
          /\ dict_filter_eval_cache' = ("A" :> eval_conjuncts_eq(params.literal, col))
    /\ pc' = "char_dict_built"
    /\ UNCHANGED <<rangeVars, minMaxVars, init_use_dict_filter_slots, use_dict_filter_slots,
                   scannerVars, decoderVars, callerVars, dict_skip, column, has_null,
                   appended, built, protocol, streamVars>>

NextCharDict == CharDictBuild

SpecCharDict == InitCharDict /\ [][NextCharDict]_vars

\* ---- claims of stage 8
\* the dictionary of the stripe, its size and its i-th entry
Dict == sdicts["A"]
DictSize == Len(Dict.dictionaryOffset) - 1
DictEntry(i) ==
    SubSeq(Dict.dictionaryBlob, Dict.dictionaryOffset[i] + 1, Dict.dictionaryOffset[i + 1])

\* entry e without its trailing spaces: the prefix of e that does not end in a
\* space and is followed in e by spaces only
Stripped(e) ==
    LET n == CHOOSE n \in 0..Len(e) :
                 /\ \A k \in (n + 1)..Len(e) : e[k] = SPACE
                 /\ n = 0 \/ e[n] # SPACE
    IN SubSeq(e, 1, n)

\* what entry i is compared as: stripped for a CHAR slot, as it is otherwise
ComparedAs(i) ==
    IF params.slot_type = "TYPE_CHAR" THEN Stripped(DictEntry(i)) ELSE DictEntry(i)

\* C26: for a CHAR slot the i-th value of the dictionary chunk is the i-th entry
\* without its trailing spaces, the rebuilt offsets start at 0, never decrease and
\* end at the number of bytes; for another slot bytes and offsets are the
\* dictionary's; the conjunct keeps an entry exactly when the stripped entry (the
\* entry itself for a slot that is not CHAR) equals the literal
C26_CharDictStripped ==
    pc = "char_dict_built" =>
        /\ Len(offsets) = DictSize + 2
        /\ \A i \in 1..DictSize : binary_value(bytes, offsets, i) = ComparedAs(i)
        /\ offsets[1] = 0
        /\ \A i \in 1..(DictSize + 1) : offsets[i] <= offsets[i + 1]
        /\ offsets[DictSize + 1] = Len(bytes)
        /\ params.slot_type # "TYPE_CHAR" =>
               /\ bytes = Dict.dictionaryBlob
               /\ SubSeq(offsets, 1, DictSize + 1) = Dict.dictionaryOffset
        /\ \A i \in 1..DictSize :
               dict_filter_eval_cache["A"][i] = 1 <=> ComparedAs(i) = params.literal

\* a CHAR dictionary of an all-space entry and a padded one: the first value is
\* empty, the second is the letter and equals the literal
C26_Witness ==
    /\ pc = "char_dict_built"
    /\ params = [slot_type |-> "TYPE_CHAR", literal |-> <<97>>]
    /\ Dict = StringDictionary(<< <<SPACE, SPACE>>, <<97, SPACE>> >>)
    /\ bytes = <<97>>
    /\ offsets = <<0, 0, 1, 1>>
    /\ dict_filter_eval_cache["A"] = <<0, 1, 0>>

====
